---- MODULE Spec2Model ----
(***************************************************************************)
(* Model of the LLM-Dev-Ops orchestrator.                                  *)
(*                                                                         *)
(*   Part I   WorkflowExecutor (llm-orchestrator-core/src/executor.rs):    *)
(*            the dispatch loop of execute() and the spawned step tasks.   *)
(*   Part II  AuditLogger (llm-orchestrator-audit/src/logger.rs):          *)
(*            log_event and the hash chain.                                *)
(*   Part III WorkflowDAG::from_workflow and its callers                   *)
(*            (WorkflowExecutor::new, the CLI's validate_workflow).        *)
(*   Part IV  ApiKeyManager and InMemoryApiKeyStore                        *)
(*            (llm-orchestrator-auth/src/api_keys.rs).                     *)
(*   Part V   RbacEngine (llm-orchestrator-auth/src/rbac.rs).              *)
(*   Part VI  JwtAuth (llm-orchestrator-auth/src/jwt.rs).                  *)
(*   Part VII AuthMiddleware (llm-orchestrator-auth/src/middleware.rs).    *)
(*   Part VIII FileAuditStorage (llm-orchestrator-audit/src/file.rs).      *)
(*   Part IX  AuditEvent::compute_hash over a persisted event              *)
(*            (llm-orchestrator-audit/src/models.rs).                      *)
(*   Part X   AuditRetentionManager                                        *)
(*            (llm-orchestrator-audit/src/retention.rs).                   *)
(*   Part XI  ApiKeyManager::lookup_key and revoke_key, step by step, on   *)
(*            one shared store (llm-orchestrator-auth/src/api_keys.rs).    *)
(***************************************************************************)
EXTENDS Integers, Sequences, FiniteSets, TLC

(***************************************************************************)
(* Bounds of the model.                                                    *)
(***************************************************************************)
NSteps == 3          \* declared steps of the workflow
MaxConcurrency == 2  \* largest max_concurrency tried (0 = unlimited)
MaxAttempts == 2     \* largest retry max_attempts tried
NCallers == 2        \* concurrent callers of AuditLogger::log_event
MaxEvents == 3       \* audit events created in one run
MaxKeys == 2         \* API keys created in one run
MaxTime == 2         \* the clock runs from 0 to MaxTime, in days
MaxRoles == 2        \* longest role list handed to the RBAC engine
MaxClock == 3        \* JWT timestamps run from 0 to MaxClock, in minutes
MaxEdits == 2        \* fields of one persisted audit event that get edited
MaxTicks == 3        \* ticks of the retention interval timer
MaxRetention == 2    \* largest retention_days tried

Steps == 1..NSteps

VARIABLES
    \* ---- the workflow handed to WorkflowExecutor::new ----
    depends_on,        \* Step.depends_on, as a set per step
    condition,         \* Step.condition and what evaluating it gives
    max_attempts,      \* retry policy of the steps (RetryPolicy.max_attempts)
    max_concurrency,   \* WorkflowExecutor.max_concurrency
    timeout_seconds,   \* Step.timeout_seconds: whether the step has a timeout
    \* ---- WorkflowExecutor fields ----
    step_statuses,     \* DashMap<String, StepStatus>
    step_results,      \* DashMap<String, StepResult>
    set_output_calls,  \* ExecutionContext: number of set_output calls per step
    \* ---- locals of execute() ----
    execution_order,   \* the order self.dag.execution_order() returned
    pc_main,           \* position of the dispatch loop
    idx,               \* index into execution_order of the step being dispatched
    completed_steps,   \* Arc<RwLock<HashSet<String>>>
    tasks,             \* Vec<JoinHandle>, as the step ids of the handles
    returned,          \* the map execute() returned
    \* ---- the spawned tasks ----
    task_pc,           \* position of each step's task
    attempts,          \* attempts the retry executor has begun, per step
    attempt_log,       \* outcome of each finished attempt, per step, in order
    sleeps,            \* backoff sleeps of the retry executor, per step
    \* ---- AuditLogger ----
    enabled,           \* AuditLogger.enabled
    previous_hash,     \* AuditLogger.previous_hash: Option<String>
    storage,           \* the events the storage backend persisted, in order
    call_pc,           \* position of each caller inside log_event
    call_event,        \* the event each caller's log_event holds
    call_result,       \* what each caller's last log_event returned
    events_created,    \* AuditEvent::new calls so far (source of fresh ids)
    \* ---- building the DAG of a workflow ----
    wf_depends_on,     \* depends_on of the workflow handed in, per step
    dag_result,        \* what WorkflowDAG::from_workflow returned
    new_result,        \* what WorkflowExecutor::new returned
    executor_dag,      \* the execution order of the executor new created
    cli_result,        \* what the CLI's validate_workflow returned
    \* ---- ApiKeyManager over an InMemoryApiKeyStore ----
    keys,              \* InMemoryApiKeyStore.keys: key_hash -> ApiKeyInfo
    user_keys,         \* InMemoryApiKeyStore.user_keys: user_id -> Vec of ids
    now,               \* Utc::now()
    keys_created,      \* create_key calls so far (source of fresh keys, ids)
    issued,            \* the ApiKey values create_key returned
    revoked,           \* the ids revoke_key was called with
    last_call,         \* the last ApiKeyManager call and what it returned
    \* ---- RbacEngine ----
    policies,          \* RbacEngine.policies: role name -> permissions
    rbac_call,         \* the last RbacEngine call and what it returned
    \* ---- JwtAuth ----
    jwt_auth,          \* the JwtAuth: secret, issuer, expiry settings
    jwt_call,          \* the last JwtAuth call and what it returned
    \* ---- AuthMiddleware ----
    auth_ctx,          \* the AuthContext the last successful authenticate gave
    auth_call,         \* the last AuthMiddleware call and what it returned
    \* ---- FileAuditStorage ----
    rotation,          \* the RotationPolicy of the storage
    file_lines,        \* the events in the file at self.path, one per line
    file_modified,     \* the time of the last modification of that file
    rotated,           \* the renamed files: name suffix -> their events
    file_clock,        \* Utc::now()
    file_stored,       \* the events handed to a store that returned Ok
    file_call,         \* the last FileAuditStorage call and what it returned
    current_file,      \* FileAuditStorage.current_file is Some
    delete_call,       \* the delete_older_than call that is running
    cutoffs,           \* the cutoffs of the delete_older_than calls so far
    \* ---- a persisted audit event and an edited copy of it ----
    persisted,         \* the event as log_event stored it, with its event_hash
    edited,            \* the stored event after fields of it were edited
    recomputed,        \* compute_hash of the edited event
    edits,             \* the number of edits made
    \* ---- the background task of an AuditRetentionManager ----
    retention_days,    \* AuditRetentionManager.retention_days
    ret_pc,            \* where the spawned loop stands
    tick_ready,        \* the interval has elapsed since the last tick
    abort_requested,   \* JoinHandle::abort was called
    ret_now,           \* Utc::now(), in days
    ret_ticks,         \* the ticks the loop has taken
    ret_calls,         \* the cutoffs of the delete_older_than calls made
    ret_results,       \* what the cleanup() calls returned
    ret_events,        \* the timestamps of the events in the storage
    calls_at_cancel,   \* the number of calls made when the task was dropped
    \* ---- a lookup_key call and a revoke_key call that run concurrently ----
    lk_pc,             \* where the lookup_key call stands
    lk_call,           \* the lookup_key call: its argument, what it saw, its result
    rv_pc,             \* where the revoke_key call stands
    rv_id              \* the key id the revoke_key call was given

workflow ==
    <<depends_on, condition, max_attempts, max_concurrency, timeout_seconds,
      execution_order>>

exec_vars == <<workflow,
               step_statuses, step_results, set_output_calls,
               pc_main, idx, completed_steps, tasks, returned, task_pc, attempts,
               attempt_log, sleeps>>

log_vars == <<enabled, previous_hash, storage, call_pc, call_event,
              call_result, events_created>>

dag_vars == <<wf_depends_on, dag_result, new_result, executor_dag, cli_result>>

key_vars == <<keys, user_keys, now, keys_created, issued, revoked, last_call>>

rbac_vars == <<policies, rbac_call>>

jwt_vars == <<jwt_auth, jwt_call>>

mw_vars == <<auth_ctx, auth_call>>

file_vars ==
    <<rotation, file_lines, file_modified, rotated, file_clock, file_stored, file_call,
      current_file, delete_call, cutoffs>>

tamper_vars == <<persisted, edited, recomputed, edits>>

retention_vars ==
    <<retention_days, ret_pc, tick_ready, abort_requested, ret_now, ret_ticks,
      ret_calls, ret_results, ret_events, calls_at_cancel>>

\* the parts after Part VIII
lookup_vars == <<lk_pc, lk_call, rv_pc, rv_id>>

later_vars == <<tamper_vars, retention_vars, lookup_vars>>

vars ==
    <<exec_vars, log_vars, dag_vars, key_vars, rbac_vars, jwt_vars, mw_vars, file_vars,
      later_vars>>

\* what the actions of one part leave alone: the variables of the other parts
outside_exec ==
    <<log_vars, dag_vars, key_vars, rbac_vars, jwt_vars, mw_vars, file_vars, later_vars>>

outside_log ==
    <<exec_vars, dag_vars, key_vars, rbac_vars, jwt_vars, mw_vars, file_vars, later_vars>>

outside_dag ==
    <<exec_vars, log_vars, key_vars, rbac_vars, jwt_vars, mw_vars, file_vars, later_vars>>

outside_keys ==
    <<exec_vars, log_vars, dag_vars, rbac_vars, jwt_vars, mw_vars, file_vars, later_vars>>

outside_rbac ==
    <<exec_vars, log_vars, dag_vars, key_vars, jwt_vars, mw_vars, file_vars, later_vars>>

outside_jwt ==
    <<exec_vars, log_vars, dag_vars, key_vars, rbac_vars, mw_vars, file_vars, later_vars>>

outside_mw ==
    <<exec_vars, log_vars, dag_vars, key_vars, rbac_vars, jwt_vars, file_vars, later_vars>>

outside_tamper ==
    <<exec_vars, log_vars, dag_vars, key_vars, rbac_vars, jwt_vars, mw_vars, file_vars,
      retention_vars, lookup_vars>>

outside_retention ==
    <<exec_vars, log_vars, dag_vars, key_vars, rbac_vars, jwt_vars, mw_vars, file_vars,
      tamper_vars, lookup_vars>>

\* the steps of Part XI act on the store of Part IV
outside_lookup ==
    <<exec_vars, log_vars, dag_vars, rbac_vars, jwt_vars, mw_vars, file_vars,
      tamper_vars, retention_vars>>

outside_file ==
    <<exec_vars, log_vars, dag_vars, key_vars, rbac_vars, jwt_vars, mw_vars, later_vars>>

\* Option<T>: None is the empty sequence, Some(x) is <<x>>
None == <<>>
Some(x) == <<x>>

(***************************************************************************)
(* Part I.  WorkflowExecutor                                               *)
(***************************************************************************)

Range(seq) == {seq[i] : i \in 1..Len(seq)}

Min(S) == CHOOSE x \in S : \A y \in S : x <= y

\* Kahn's algorithm with ties broken by declaration order: emit, one at a
\* time, the first declared step all of whose predecessors were emitted.
RECURSIVE KahnFrom(_, _)
KahnFrom(deps, emitted) ==
    LET ready == {s \in Steps \ Range(emitted) : deps[s] \subseteq Range(emitted)}
    IN  IF ready = {} THEN emitted
        ELSE KahnFrom(deps, Append(emitted, Min(ready)))

\* mutant of ExecutionOrder: the steps in declaration order
DeclarationOrder(deps) == [i \in 1..NSteps |-> i]

\* WorkflowDAG::execution_order
ExecutionOrder(deps) == KahnFrom(deps, <<>>)

\* WorkflowExecutor::new succeeds only for a workflow that passes validate()
\* and from_workflow(): no self-dependency, no cycle.
ValidWorkflow(deps) ==
    /\ \A s \in Steps : s \notin deps[s]
    /\ Len(ExecutionOrder(deps)) = NSteps

\* the values of Step.condition the model distinguishes: no condition, or a
\* condition that ExecutionContext::evaluate_condition evaluates to true, to
\* false, or fails to evaluate
Conditions == {"none", "true", "false", "error"}

\* the outputs map of a step attempt that succeeded
StepOutputs == {"values"}

Terminal == {"Completed", "Failed", "Skipped"}

\* The state after WorkflowExecutor::new and with_max_concurrency, at the
\* start of execute(): any valid workflow over Steps, any condition per step,
\* one retry policy shared by the steps, any max_concurrency up to the bound.
InitExec ==
    /\ depends_on \in {d \in [Steps -> SUBSET Steps] : ValidWorkflow(d)}
    /\ condition \in [Steps -> Conditions]
    /\ max_attempts \in 1..MaxAttempts
    /\ max_concurrency \in 0..MaxConcurrency
    /\ timeout_seconds = [s \in Steps |-> None]
    /\ step_statuses = [s \in Steps |-> "Pending"]
    /\ step_results = <<>>
    /\ set_output_calls = [s \in Steps |-> 0]
    /\ execution_order = ExecutionOrder(depends_on)
    /\ pc_main = "dispatch"
    /\ idx = 1
    /\ completed_steps = {}
    /\ tasks = <<>>
    /\ returned = <<>>
    /\ task_pc = [s \in Steps |-> "unspawned"]
    /\ attempts = [s \in Steps |-> 0]
    /\ attempt_log = [s \in Steps |-> <<>>]
    /\ sleeps = [s \in Steps |-> 0]

\* mutant of AllDepsComplete: the barrier lets every step through
AllDepsCompleteNoBarrier(step) == TRUE

\* wait_for_dependencies: the loop breaks once every dependency is in the set
AllDepsComplete(step) == \A dep \in depends_on[step] : dep \in completed_steps

\* mutant of should_execute: a step without a condition is not executed
should_execute_default_false(step) ==
    IF condition[step] = "none" THEN "false" ELSE condition[step]

\* should_execute: Ok(true) without a condition, otherwise what
\* evaluate_condition gives
should_execute(step) ==
    IF condition[step] = "none" THEN "true" ELSE condition[step]

\* mutant of ThrottleNeeded: `>` in place of `>=`
ThrottleNeededOffByOne(len) == max_concurrency > 0 /\ len > max_concurrency

\* the concurrency limit check that follows tasks.push
ThrottleNeeded(len) == max_concurrency > 0 /\ len >= max_concurrency

\* mutant of SkippedResult: the skipped step's result carries an error
SkippedResultWithError ==
    [status |-> "Skipped", outputs |-> "empty", error |-> Some(0)]

\* the StepResult mark_skipped stores
SkippedResult == [status |-> "Skipped", outputs |-> "empty", error |-> None]

InLoop == pc_main = "dispatch" /\ idx <= Len(execution_order)

\* execute(), one iteration whose condition fails to evaluate: the `?` after
\* should_execute returns the error from execute()
ConditionError ==
    /\ InLoop
    /\ LET step == execution_order[idx] IN
        /\ AllDepsComplete(step)
        /\ should_execute(step) = "error"
        /\ pc_main' = "returned_err"
    /\ UNCHANGED <<outside_exec, workflow, attempt_log, sleeps,
                   step_statuses, step_results, set_output_calls, idx,
                   completed_steps, tasks, returned, task_pc, attempts>>

\* execute(), one iteration whose condition is false: mark_skipped, continue
SkipStep ==
    /\ InLoop
    /\ LET step == execution_order[idx] IN
        /\ AllDepsComplete(step)
        /\ should_execute(step) = "false"
        /\ step_statuses' = [step_statuses EXCEPT ![step] = "Skipped"]
        /\ step_results' = (step :> SkippedResult) @@ step_results
    /\ idx' = idx + 1
    /\ UNCHANGED <<outside_exec, workflow, attempt_log, sleeps,
                   set_output_calls, pc_main, completed_steps, tasks,
                   returned, task_pc, attempts>>

\* execute(), one iteration that spawns the step's task and pushes its handle
SpawnStep ==
    /\ InLoop
    /\ LET step == execution_order[idx] IN
        /\ AllDepsComplete(step)
        /\ should_execute(step) = "true"
        /\ task_pc' = [task_pc EXCEPT ![step] = "spawned"]
        /\ tasks' = Append(tasks, step)
        /\ IF ThrottleNeeded(Len(tasks) + 1)
           THEN pc_main' = "throttle" /\ idx' = idx
           ELSE pc_main' = "dispatch" /\ idx' = idx + 1
    /\ UNCHANGED <<outside_exec, workflow, attempt_log, sleeps,
                   step_statuses, step_results, set_output_calls,
                   completed_steps, returned, attempts>>

\* mutant of HeadFinished: the first handle is removed without being awaited
HeadFinishedNoAwait == TRUE

\* `result.await` on the first handle of the vector returns once its task
\* has finished
HeadFinished == task_pc[Head(tasks)] = "done"

\* execute(), the throttle: await the first handle, remove it
ThrottleAwait ==
    /\ pc_main = "throttle"
    /\ HeadFinished
    /\ tasks' = Tail(tasks)
    /\ pc_main' = "dispatch"
    /\ idx' = idx + 1
    /\ UNCHANGED <<outside_exec, workflow, attempt_log, sleeps,
                   step_statuses, step_results, set_output_calls,
                   completed_steps, returned, task_pc, attempts>>

\* execute(), after the loop: await the remaining handles in order
JoinTask ==
    /\ pc_main = "dispatch"
    /\ idx > Len(execution_order)
    /\ tasks # <<>>
    /\ HeadFinished
    /\ tasks' = Tail(tasks)
    /\ UNCHANGED <<outside_exec, workflow, attempt_log, sleeps,
                   step_statuses, step_results, set_output_calls, pc_main,
                   idx, completed_steps, returned, task_pc, attempts>>

\* mutant of AllJoined: execute() collects the results without awaiting the
\* remaining handles
AllJoinedNoWait == TRUE

\* every handle of the vector has been awaited
AllJoined == tasks = <<>>

\* execute(), the end: collect step_results and return Ok
ReturnOk ==
    /\ pc_main = "dispatch"
    /\ idx > Len(execution_order)
    /\ AllJoined
    /\ returned' = step_results
    /\ pc_main' = "returned_ok"
    /\ UNCHANGED <<outside_exec, workflow, attempt_log, sleeps,
                   step_statuses, step_results, set_output_calls, idx,
                   completed_steps, tasks, task_pc, attempts>>

\* execute_step, up to the first attempt: status Running, attempt 1 begins
TaskStart(s) ==
    /\ task_pc[s] = "spawned"
    /\ step_statuses' = [step_statuses EXCEPT ![s] = "Running"]
    /\ attempts' = [attempts EXCEPT ![s] = 1]
    /\ task_pc' = [task_pc EXCEPT ![s] = "attempt"]
    /\ UNCHANGED <<outside_exec, workflow, attempt_log, sleeps,
                   step_results, set_output_calls, pc_main, idx,
                   completed_steps, tasks, returned>>

\* the retry executor: after a failed attempt another one follows while
\* fewer than max_attempts attempts were made
ShouldRetry(attempt, max) == attempt < max

\* the retry executor does not classify errors: every failure is retryable
Retryable(err) == TRUE

\* mutant of AttemptFailures: the attempts of every step are raced against a
\* timeout
AttemptFailuresAlwaysRaced(s) == {"err", "timeout"}

\* the ways an attempt of a step fails: execute_step_inner returns an error,
\* or, with timeout_seconds set, it outlasts the timeout and the closure
\* gives OrchestratorError::Timeout
AttemptFailures(s) ==
    {"err"} \cup (IF timeout_seconds[s] # None THEN {"timeout"} ELSE {})

\* ExecutionContext::set_output, counted per step id
set_output(calls, step_id) == [calls EXCEPT ![step_id] = @ + 1]

\* mutant of SleepsAfterFailure: the executor sleeps after every failure
SleepsAfterEveryFailure(attempt, max) == 1

\* the retry executor: one backoff sleep after a failed attempt that is
\* followed by another attempt, none after the final attempt
SleepsAfterFailure(attempt, max) == IF ShouldRetry(attempt, max) THEN 1 ELSE 0

\* the retry executor returns the last failure; the error of the attempt
\* that failed i-th is written i
LastFailure(log) == Len(log)

\* execute_step, the StepResult of the Ok arm
CompletedResult(outputs) ==
    [status |-> "Completed", outputs |-> outputs, error |-> None]

\* mutant of FailedResult: the Err arm stores a result without the error
FailedResultNoError(err) ==
    [status |-> "Failed", outputs |-> "empty", error |-> None]

\* execute_step, the StepResult of the Err arm: err.to_string() of the error
\* the retry executor returned
FailedResult(err) ==
    [status |-> "Failed", outputs |-> "empty", error |-> Some(err)]

\* the retry executor: an attempt fails, attempts remain, the executor
\* sleeps the backoff delay and the next attempt begins
AttemptRetry(s) ==
    /\ task_pc[s] = "attempt"
    /\ \E err \in AttemptFailures(s) :
        /\ ShouldRetry(attempts[s], max_attempts) /\ Retryable(err)
        /\ attempt_log' = [attempt_log EXCEPT ![s] = Append(@, err)]
    /\ sleeps' = [sleeps EXCEPT
                    ![s] = @ + SleepsAfterFailure(attempts[s], max_attempts)]
    /\ attempts' = [attempts EXCEPT ![s] = @ + 1]
    /\ UNCHANGED <<outside_exec, workflow,
                   step_statuses, step_results, set_output_calls, pc_main,
                   idx, completed_steps, tasks, returned, task_pc>>

\* execute_step, the Ok arm: an attempt succeeded, status Completed, outputs
\* published in the context, result stored
AttemptOk(s) ==
    /\ task_pc[s] = "attempt"
    /\ attempt_log' = [attempt_log EXCEPT ![s] = Append(@, "ok")]
    /\ \E outputs \in StepOutputs :
        /\ step_statuses' = [step_statuses EXCEPT ![s] = "Completed"]
        /\ set_output_calls' = set_output(set_output_calls, s)
        /\ step_results' = (s :> CompletedResult(outputs)) @@ step_results
    /\ task_pc' = [task_pc EXCEPT ![s] = "recorded"]
    /\ UNCHANGED <<outside_exec, workflow,
                   pc_main, idx, completed_steps, tasks, returned, attempts,
                   sleeps>>

\* mutant of AttemptsExhausted: the Err arm publishes outputs too
AttemptsExhaustedPublishes(s) ==
    /\ task_pc[s] = "attempt"
    /\ ~ShouldRetry(attempts[s], max_attempts)
    /\ attempt_log' = [attempt_log EXCEPT ![s] = Append(@, "err")]
    /\ sleeps' = [sleeps EXCEPT
                    ![s] = @ + SleepsAfterFailure(attempts[s], max_attempts)]
    /\ step_statuses' = [step_statuses EXCEPT ![s] = "Failed"]
    /\ set_output_calls' = set_output(set_output_calls, s)
    /\ step_results' =
         (s :> FailedResult(LastFailure(attempt_log'[s]))) @@ step_results
    /\ task_pc' = [task_pc EXCEPT ![s] = "recorded"]
    /\ UNCHANGED <<outside_exec, workflow, pc_main, idx, completed_steps, tasks,
                   returned, attempts>>

\* execute_step, the Err arm: the final attempt failed, the retry executor
\* returned the last failure, status Failed, result stored
AttemptsExhausted(s) ==
    /\ task_pc[s] = "attempt"
    /\ \E err \in AttemptFailures(s) :
        /\ ~(ShouldRetry(attempts[s], max_attempts) /\ Retryable(err))
        /\ attempt_log' = [attempt_log EXCEPT ![s] = Append(@, err)]
    /\ sleeps' = [sleeps EXCEPT
                    ![s] = @ + SleepsAfterFailure(attempts[s], max_attempts)]
    /\ step_statuses' = [step_statuses EXCEPT ![s] = "Failed"]
    /\ step_results' =
         (s :> FailedResult(LastFailure(attempt_log'[s]))) @@ step_results
    /\ task_pc' = [task_pc EXCEPT ![s] = "recorded"]
    /\ UNCHANGED <<outside_exec, workflow,
                   set_output_calls, pc_main, idx, completed_steps, tasks,
                   returned, attempts>>

\* the spawned closure after execute_step: insert into completed, finish
MarkCompleted(s) ==
    /\ task_pc[s] = "recorded"
    /\ completed_steps' = completed_steps \cup {s}
    /\ task_pc' = [task_pc EXCEPT ![s] = "done"]
    /\ UNCHANGED <<outside_exec, workflow, attempt_log, sleeps,
                   step_statuses, step_results, set_output_calls, pc_main,
                   idx, tasks, returned, attempts>>

NextExec ==
    \/ ConditionError
    \/ SkipStep
    \/ SpawnStep
    \/ ThrottleAwait
    \/ JoinTask
    \/ ReturnOk
    \/ \E s \in Steps : TaskStart(s)
    \/ \E s \in Steps : AttemptRetry(s)
    \/ \E s \in Steps : AttemptOk(s)
    \/ \E s \in Steps : AttemptsExhausted(s)
    \/ \E s \in Steps : MarkCompleted(s)

(***************************************************************************)
(* Part II.  AuditLogger                                                   *)
(***************************************************************************)

Callers == 1..NCallers

\* a String that is empty; hashes are non-empty tuples
EmptyString == <<>>

\* Option<String>::as_deref().unwrap_or("")
UnwrapOrEmpty(opt) == IF opt = None THEN EmptyString ELSE opt[1]

\* the Strings of the model that contain the character '|', each with the
\* pieces the character cuts it into
Pieces ==
    ("x|user" :> <<"x", "|", "user">>) @@ ("user|y" :> <<"user", "|", "y">>)

HasPipe(str) == str \in DOMAIN Pieces

\* a String as the sequence of its pieces
Split(str) == IF HasPipe(str) THEN Pieces[str] ELSE <<str>>

\* a hex digest inside a formatted string: it holds no '|'
Hex(digest) == IF digest = EmptyString THEN <<>> ELSE <<"[">> \o digest \o <<"]">>

\* mutant of ResultAsStr: the message of a Failure is part of the string
ResultDebug(result) == IF result.message = "" THEN result.tag ELSE result.message

\* AuditResult::as_str: the tag, without the message of a Failure
ResultAsStr(result) == result.tag

\* AuditEvent::compute_hash: SHA-256 (taken as collision-free) over the
\* string format!("{}|{}|{}|{}|{}|{}|{}|{}", ...) builds: the fields the
\* format string names, written out and joined by '|'
compute_hash(e) ==
    <<ToString(e.id), "|", ToString(e.timestamp), "|", e.event_type, "|">>
    \o Split(e.action)
    \o <<"|", e.resource_type, "|">>
    \o Split(e.resource_id)
    \o <<"|", ResultAsStr(e.result), "|">>
    \o Hex(UnwrapOrEmpty(e.previous_hash))

\* the arguments the log_* helpers give AuditEvent::new and with_user_id
Payloads ==
    [event_type : {"authentication"},
     action : {"User authentication attempt"},
     resource_type : {"user"},
     resource_id : {"user-1", "user-2"},
     result : {[tag |-> "success", message |-> ""],
               [tag |-> "failure", message |-> "Authentication failed"]},
     user_id : {Some("user-1")}]

\* AuditEvent::new: fresh id, current time, no hashes yet
NewEvent(p, n) ==
    [id |-> n, timestamp |-> n, event_type |-> p.event_type,
     user_id |-> p.user_id, action |-> p.action,
     resource_type |-> p.resource_type, resource_id |-> p.resource_id,
     result |-> p.result, details |-> "null", ip_address |-> None,
     user_agent |-> None, request_id |-> None,
     previous_hash |-> None, event_hash |-> None]

\* mutant of Chained: event_hash is computed before previous_hash is set
ChainedHashFirst(e, prev) ==
    [e EXCEPT !.previous_hash = prev, !.event_hash = Some(compute_hash(e))]

\* log_event, the hash chain lines: previous_hash is set from the logger's
\* field, then event_hash is computed over the event
Chained(e, prev) ==
    LET linked == [e EXCEPT !.previous_hash = prev]
    IN  [linked EXCEPT !.event_hash = Some(compute_hash(linked))]

NoEvent == [id |-> 0]

InitLog ==
    /\ enabled \in BOOLEAN
    /\ previous_hash = None
    /\ storage = <<>>
    /\ call_pc = [c \in Callers |-> "idle"]
    /\ call_event = [c \in Callers |-> NoEvent]
    /\ call_result = [c \in Callers |-> "none"]
    /\ events_created = 0

\* mutant of LogDisabled: the disabled logger hands the event to the storage
LogDisabledStores(c) ==
    /\ call_pc[c] = "idle"
    /\ ~enabled
    /\ events_created < MaxEvents
    /\ events_created' = events_created + 1
    /\ \E p \in Payloads :
        storage' = Append(storage, Chained(NewEvent(p, events_created + 1), previous_hash))
    /\ call_result' = [call_result EXCEPT ![c] = "ok"]
    /\ UNCHANGED <<outside_log, enabled, previous_hash, call_pc, call_event>>

\* log_event on a disabled logger: Ok(()) at once
LogDisabled(c) ==
    /\ call_pc[c] = "idle"
    /\ ~enabled
    /\ events_created < MaxEvents
    /\ events_created' = events_created + 1
    /\ call_result' = [call_result EXCEPT ![c] = "ok"]
    /\ UNCHANGED <<outside_log, enabled, previous_hash, storage, call_pc, call_event>>

\* log_event, up to the store: read previous_hash, chain the event
LogBegin(c) ==
    /\ call_pc[c] = "idle"
    /\ enabled
    /\ events_created < MaxEvents
    /\ \E p \in Payloads :
        call_event' = [call_event EXCEPT
                         ![c] = Chained(NewEvent(p, events_created + 1), previous_hash)]
    /\ events_created' = events_created + 1
    /\ call_pc' = [call_pc EXCEPT ![c] = "store"]
    /\ call_result' = [call_result EXCEPT ![c] = "none"]
    /\ UNCHANGED <<outside_log, enabled, previous_hash, storage>>

\* log_event, storage.store(&event) succeeds: the event is persisted
LogStoreOk(c) ==
    /\ call_pc[c] = "store"
    /\ storage' = Append(storage, call_event[c])
    /\ call_pc' = [call_pc EXCEPT ![c] = "update"]
    /\ UNCHANGED <<outside_log, enabled, previous_hash, call_event, call_result,
                   events_created>>

\* mutant of LogStoreErr: previous_hash moves on although the store failed
LogStoreErrAdvancesHash(c) ==
    /\ call_pc[c] = "store"
    /\ previous_hash' = call_event[c].event_hash
    /\ call_pc' = [call_pc EXCEPT ![c] = "idle"]
    /\ call_event' = [call_event EXCEPT ![c] = NoEvent]
    /\ call_result' = [call_result EXCEPT ![c] = "err"]
    /\ UNCHANGED <<outside_log, enabled, storage, events_created>>

\* log_event, storage.store(&event) fails: the `?` returns the error
LogStoreErr(c) ==
    /\ call_pc[c] = "store"
    /\ call_pc' = [call_pc EXCEPT ![c] = "idle"]
    /\ call_event' = [call_event EXCEPT ![c] = NoEvent]
    /\ call_result' = [call_result EXCEPT ![c] = "err"]
    /\ UNCHANGED <<outside_log, enabled, previous_hash, storage, events_created>>

\* log_event, after the store: previous_hash := event_hash, Ok(())
LogUpdate(c) ==
    /\ call_pc[c] = "update"
    /\ previous_hash' = call_event[c].event_hash
    /\ call_pc' = [call_pc EXCEPT ![c] = "idle"]
    /\ call_event' = [call_event EXCEPT ![c] = NoEvent]
    /\ call_result' = [call_result EXCEPT ![c] = "ok"]
    /\ UNCHANGED <<outside_log, enabled, storage, events_created>>

\* no log_event call is under way
NoCallRunning == \A c \in Callers : call_pc[c] = "idle"

NextLog ==
    \/ \E c \in Callers : LogDisabled(c)
    \/ \E c \in Callers : LogBegin(c)
    \/ \E c \in Callers : LogStoreOk(c)
    \/ \E c \in Callers : LogStoreErr(c)
    \/ \E c \in Callers : LogUpdate(c)

\* log_event calls that run one after another: a call begins only when no
\* other call is under way
LogDisabledSeq(c) == NoCallRunning /\ LogDisabled(c)

LogBeginSeq(c) == NoCallRunning /\ LogBegin(c)

NextLogSeq ==
    \/ \E c \in Callers : LogDisabledSeq(c)
    \/ \E c \in Callers : LogBeginSeq(c)
    \/ \E c \in Callers : LogStoreOk(c)
    \/ \E c \in Callers : LogStoreErr(c)
    \/ \E c \in Callers : LogUpdate(c)

(***************************************************************************)
(* Part III.  WorkflowDAG::from_workflow, WorkflowExecutor::new            *)
(***************************************************************************)

\* an identifier that no step of the workflow declares
UndeclaredStep == NSteps + 1

\* every depends_on entry references a declared step
AllDeclared(deps) == \A s \in Steps : deps[s] \subseteq Steps

\* Workflow::validate: every depends_on entry is declared, no step depends
\* on itself
WorkflowValidates(deps) ==
    /\ AllDeclared(deps)
    /\ \A s \in Steps : s \notin deps[s]

\* the nodes Kahn's algorithm left unemitted
Unemitted(deps) == Steps \ Range(ExecutionOrder(deps))

\* the outgoing edges of a node lead to the steps that depend on it
Successors(deps, n) == {m \in Steps : n \in deps[m]}

\* the first index of a node in a path
IndexIn(path, n) == Min({i \in 1..Len(path) : path[i] = n})

\* Depth-first search along outgoing edges, successors in declaration order.
\* path is the stack of the search.  DfsScan goes through the successors
\* todo of the last node of path: a successor that is on the stack closes a
\* cycle, which is the stack from that node on, followed by that node.
RECURSIVE DfsScan(_, _, _, _)
DfsScan(deps, path, visited, todo) ==
    IF todo = {} THEN [cycle |-> <<>>, visited |-> visited]
    ELSE LET n == Min(todo) IN
         IF n \in Range(path)
         THEN [cycle |-> Append(SubSeq(path, IndexIn(path, n), Len(path)), n),
               visited |-> visited]
         ELSE IF n \in visited
         THEN DfsScan(deps, path, visited, todo \ {n})
         ELSE LET below == DfsScan(deps, Append(path, n), visited \cup {n},
                                   Successors(deps, n))
              IN  IF below.cycle # <<>> THEN below
                  ELSE DfsScan(deps, path, below.visited, todo \ {n})

\* the cycle the search from one node finds, <<>> if it finds none
DfsCycle(deps, start) ==
    DfsScan(deps, <<start>>, {start}, Successors(deps, start)).cycle

\* the witness paths from_workflow may report: the search starts from an
\* unemitted node and goes on to another one when it comes back empty
CycleWitnesses(deps) ==
    {DfsCycle(deps, start) : start \in Unemitted(deps)} \ {<<>>}

DagNone == [tag |-> "none"]

\* WorkflowDAG::from_workflow: references are verified, Kahn's algorithm
\* runs, and nodes left unemitted give CycleDetected with a witness path
FromWorkflowResults(deps) ==
    IF ~AllDeclared(deps) THEN {[tag |-> "InvalidDag"]}
    ELSE IF Unemitted(deps) = {}
    THEN {[tag |-> "Ok", order |-> ExecutionOrder(deps)]}
    ELSE {[tag |-> "CycleDetected", path |-> p] : p \in CycleWitnesses(deps)}

\* no operation of this part has run yet
NothingBuilt ==
    /\ dag_result = DagNone
    /\ new_result = "none"
    /\ cli_result = "none"

\* WorkflowDAG::from_workflow called on the workflow
FromWorkflow ==
    /\ NothingBuilt
    /\ dag_result' \in FromWorkflowResults(wf_depends_on)
    /\ UNCHANGED <<outside_dag, wf_depends_on, new_result, executor_dag, cli_result>>

\* mutant of ValidatedThenBuilt: the error of from_workflow is dropped
ValidatedOnly(deps, dag) == WorkflowValidates(deps)

\* the two `?` of WorkflowExecutor::new and of validate_workflow: the call
\* goes on only if validate() and from_workflow() both returned Ok
ValidatedThenBuilt(deps, dag) == WorkflowValidates(deps) /\ dag.tag = "Ok"

\* WorkflowExecutor::new: validate, build the DAG, create the executor
ExecutorNew ==
    /\ NothingBuilt
    /\ \E dag \in FromWorkflowResults(wf_depends_on) :
        /\ dag_result' = (IF WorkflowValidates(wf_depends_on) THEN dag ELSE DagNone)
        /\ IF ValidatedThenBuilt(wf_depends_on, dag)
           THEN new_result' = "Ok"
                /\ executor_dag' = Some(ExecutionOrder(wf_depends_on))
           ELSE new_result' = "Err" /\ executor_dag' = None
    /\ UNCHANGED <<outside_dag, wf_depends_on, cli_result>>

\* the CLI's validate_workflow: validate, build the DAG, report
ValidateWorkflow ==
    /\ NothingBuilt
    /\ \E dag \in FromWorkflowResults(wf_depends_on) :
        /\ dag_result' = (IF WorkflowValidates(wf_depends_on) THEN dag ELSE DagNone)
        /\ cli_result' = (IF ValidatedThenBuilt(wf_depends_on, dag)
                          THEN "Ok" ELSE "Err")
    /\ UNCHANGED <<outside_dag, wf_depends_on, new_result, executor_dag>>

InitDag ==
    /\ wf_depends_on \in [Steps -> SUBSET (Steps \cup {UndeclaredStep})]
    /\ dag_result = DagNone
    /\ new_result = "none"
    /\ executor_dag = None
    /\ cli_result = "none"

NextDag ==
    \/ FromWorkflow
    \/ ExecutorNew
    \/ ValidateWorkflow

(***************************************************************************)
(* Part IV.  ApiKeyManager, InMemoryApiKeyStore                            *)
(***************************************************************************)

Users == {"user123", "user456"}

\* expires_in_days: Option<i64>
ExpiresInDays == {None, Some(1)}

\* the n-th key generate_raw_key gives, with API_KEY_PREFIX in front
ApiKeyOf(n) == <<"llm_orch_", n>>

\* a string that create_key never returned
InvalidKey == <<"invalid_key">>

\* the strings lookup_key is called with
Plaintexts == {ApiKeyOf(n) : n \in 1..MaxKeys} \cup {InvalidKey}

\* ApiKeyManager::hash_key: the SHA-256 hex digest, collision-free
hash_key(key) == <<"sha256", key>>

\* ApiKeyStore::lookup_key of the in-memory store
StoreLookup(ks, key_hash) ==
    IF key_hash \in DOMAIN ks THEN Some(ks[key_hash]) ELSE None

\* mutant of IsExpired: the expiry of a key is not looked at
IsExpiredNever(info, t) == FALSE

\* lookup_key, the expiry check: expires_at is set and lies before now
IsExpired(info, t) == info.expires_at # None /\ t > info.expires_at[1]

\* ApiKeyStore::update_last_used of the in-memory store
UpdateLastUsed(ks, id, t) ==
    [h \in DOMAIN ks |->
        IF ks[h].id = id THEN [ks[h] EXCEPT !.last_used_at = Some(t)] ELSE ks[h]]

\* mutant of RetainOtherKeys: revoke_key removes nothing from keys
RetainEveryKey(ks, id) == ks

\* revoke_key: keys.retain(|_k, v| v.id != key_id)
RetainOtherKeys(ks, id) ==
    [h \in {g \in DOMAIN ks : ks[g].id # id} |-> ks[h]]

\* id != key_id, the test of the retain over a user's ids
IsOtherId(id, key_id) == id # key_id

\* ApiKeyManager::lookup_key against the store ks at time t: the result and
\* the store it leaves
LookupKeyOutcome(ks, key, t) ==
    LET key_hash == hash_key(key)
        key_info == StoreLookup(ks, key_hash)
    IN  IF key_info = None
        THEN [result |-> "ApiKeyNotFound", info |-> None, keys |-> ks]
        ELSE IF IsExpired(key_info[1], t)
        THEN [result |-> "ApiKeyExpired", info |-> None, keys |-> ks]
        ELSE LET touched == UpdateLastUsed(ks, key_info[1].id, t)
                 updated == StoreLookup(touched, key_hash)
             IN  [result |-> IF updated = None THEN "ApiKeyNotFound" ELSE "Ok",
                  info |-> updated, keys |-> touched]

NoCall == [op |-> "none"]

InitKeys ==
    /\ keys = <<>>
    /\ user_keys = <<>>
    /\ now = 0
    /\ keys_created = 0
    /\ issued = {}
    /\ revoked = {}
    /\ last_call = NoCall

\* the scopes of the keys of the tests
TestScopes == {<<"workflow:read">>}

\* ApiKeyManager::create_key and the store's create_key; name and
\* created_at, which are copied and never read, are left out of the records
CreateKey(user_id, scopes, expires_in_days) ==
    /\ keys_created < MaxKeys
    /\ LET n == keys_created + 1
           api_key ==
               [id |-> n, key |-> ApiKeyOf(n), key_hash |-> hash_key(ApiKeyOf(n)),
                user_id |-> user_id, scopes |-> scopes,
                expires_at |-> IF expires_in_days = None THEN None
                               ELSE Some(now + expires_in_days[1])]
           key_info ==
               [id |-> api_key.id, key_hash |-> api_key.key_hash,
                user_id |-> api_key.user_id, scopes |-> api_key.scopes,
                expires_at |-> api_key.expires_at, last_used_at |-> None]
           ids == IF user_id \in DOMAIN user_keys THEN user_keys[user_id] ELSE <<>>
       IN  /\ keys' = (api_key.key_hash :> key_info) @@ keys
           /\ user_keys' = (user_id :> Append(ids, api_key.id)) @@ user_keys
           /\ issued' = issued \cup {api_key}
           /\ last_call' = [op |-> "create_key", id |-> api_key.id]
    /\ keys_created' = keys_created + 1
    /\ UNCHANGED <<outside_keys, now, revoked>>

\* ApiKeyManager::lookup_key
LookupKey(key) ==
    /\ LET out == LookupKeyOutcome(keys, key, now) IN
        /\ keys' = out.keys
        /\ last_call' = [op |-> "lookup_key", key |-> key, at |-> now,
                         before |-> StoreLookup(keys, hash_key(key)),
                         result |-> out.result, info |-> out.info]
    /\ UNCHANGED <<outside_keys, user_keys, now, keys_created, issued, revoked>>

\* ApiKeyManager::revoke_key and the store's revoke_key
RevokeKey(key_id) ==
    /\ keys' = RetainOtherKeys(keys, key_id)
    /\ user_keys' = [u \in DOMAIN user_keys |->
                        SelectSeq(user_keys[u], LAMBDA id : IsOtherId(id, key_id))]
    /\ revoked' = revoked \cup {key_id}
    /\ last_call' = [op |-> "revoke_key", id |-> key_id]
    /\ UNCHANGED <<outside_keys, now, keys_created, issued>>

\* ApiKeyManager::list_keys and the store's list_keys; the Vec returned is
\* kept as the set of its elements (the map is iterated once)
ListKeys(user_id) ==
    /\ LET key_ids == IF user_id \in DOMAIN user_keys
                      THEN Range(user_keys[user_id]) ELSE {}
       IN  last_call' =
               [op |-> "list_keys", user_id |-> user_id,
                listed |-> {keys[h] : h \in {g \in DOMAIN keys : keys[g].id \in key_ids}}]
    /\ UNCHANGED <<outside_keys, keys, user_keys, now, keys_created, issued, revoked>>

\* a day passes
Tick ==
    /\ now < MaxTime
    /\ now' = now + 1
    /\ UNCHANGED <<outside_keys, keys, user_keys, keys_created, issued, revoked,
                   last_call>>

\* the ids revoke_key is called with: those of the keys created so far, and
\* one that no key has
KeyIds == 0..keys_created

NextKeys ==
    \/ \E u \in Users, sc \in TestScopes, d \in ExpiresInDays : CreateKey(u, sc, d)
    \/ \E k \in Plaintexts : LookupKey(k)
    \/ \E id \in KeyIds : RevokeKey(id)
    \/ \E u \in Users : ListKeys(u)
    \/ Tick

(***************************************************************************)
(* Part V.  RbacEngine                                                     *)
(***************************************************************************)

\* Permission::all(), as the set of its elements
PermissionAll ==
    {"WorkflowRead", "WorkflowWrite", "WorkflowExecute", "WorkflowDelete",
     "AdminAccess", "ExecutionRead", "ExecutionCancel"}

\* RbacEngine::new: the predefined roles
DefaultPolicies ==
    [role \in {"viewer", "executor", "developer", "admin"} |->
        CASE role = "viewer" -> {"WorkflowRead", "ExecutionRead"}
          [] role = "executor" ->
                {"WorkflowRead", "WorkflowExecute", "ExecutionRead"}
          [] role = "developer" ->
                {"WorkflowRead", "WorkflowWrite", "WorkflowExecute",
                 "ExecutionRead", "ExecutionCancel"}
          [] role = "admin" -> PermissionAll]

\* the role names that occur in calls: two predefined ones, a custom one,
\* and one that is never added
RoleNames == {"viewer", "admin", "custom_role", "nonexistent"}

\* the names add_role is called with
AddedRoleNames == {"custom_role"}

\* the permission lists add_role is called with
AddedPermissions ==
    {{}, {"WorkflowRead", "WorkflowExecute"}, {"AdminAccess"}, {"WorkflowDelete"}}

\* the role lists of the calls: any names, repeated or not, up to MaxRoles
RoleLists == UNION {[1..k -> RoleNames] : k \in 0..MaxRoles}

\* compute_permissions, the loop: the permissions of every listed role that
\* the table holds, collected in a set
CollectedPermissions(table, roles) ==
    UNION {table[roles[i]] : i \in {j \in 1..Len(roles) : roles[j] \in DOMAIN table}}

\* mutant of compute_permissions: AdminAccess does not widen the result
compute_permissions_as_collected(table, roles) ==
    CollectedPermissions(table, roles)

\* RbacEngine::compute_permissions; the Vec returned holds no permission
\* twice and is kept as the set of its elements
compute_permissions(table, roles) ==
    IF "AdminAccess" \in CollectedPermissions(table, roles)
    THEN PermissionAll
    ELSE CollectedPermissions(table, roles)

\* mutant of check_permission: a role with AdminAccess grants nothing else
check_permission_listed_only(table, roles, permission) ==
    \E i \in 1..Len(roles) :
        roles[i] \in DOMAIN table /\ permission \in table[roles[i]]

\* RbacEngine::check_permission: true at the first listed role that the
\* table holds and that has AdminAccess or the permission
check_permission(table, roles, permission) ==
    \E i \in 1..Len(roles) :
        /\ roles[i] \in DOMAIN table
        /\ \/ "AdminAccess" \in table[roles[i]]
           \/ permission \in table[roles[i]]

\* RbacEngine::new or RbacEngine::new_empty
InitRbac ==
    /\ policies \in {DefaultPolicies, <<>>}
    /\ rbac_call = [op |-> "none"]

\* RbacEngine::list_roles: the names of the table, in no particular order
list_roles(table) == DOMAIN table

\* RbacEngine::add_role: insert or replace the policy of the role
AddRole(role, permissions) ==
    /\ policies' = (role :> permissions) @@ policies
    /\ rbac_call' = [op |-> "add_role", role |-> role, before |-> policies]
    /\ UNCHANGED outside_rbac

\* what a remove_role call leaves for the properties: the table before it,
\* its result, and the add_role call if that came just before
RemoveCall(role) ==
    [op |-> "remove_role", role |-> role, before |-> policies,
     result |-> IF role \in DOMAIN policies THEN "Ok" ELSE "RoleNotFound",
     previous |-> IF rbac_call.op = "add_role" THEN rbac_call ELSE [op |-> "other"]]

\* mutant of RemoveRole: Ok is returned and the policy stays in the table
RemoveRoleKeepsPolicy(role) ==
    /\ policies' = policies
    /\ rbac_call' = RemoveCall(role)
    /\ UNCHANGED outside_rbac

\* RbacEngine::remove_role: remove the policy, RoleNotFound if there is none
RemoveRole(role) ==
    /\ policies' = [r \in DOMAIN policies \ {role} |-> policies[r]]
    /\ rbac_call' = RemoveCall(role)
    /\ UNCHANGED outside_rbac

\* a call of RbacEngine::compute_permissions
ComputePermissions(roles) ==
    /\ rbac_call' = [op |-> "compute_permissions", roles |-> roles,
                     result |-> compute_permissions(policies, roles)]
    /\ UNCHANGED <<outside_rbac, policies>>

\* a call of RbacEngine::check_permission
CheckPermission(roles, permission) ==
    /\ rbac_call' = [op |-> "check_permission", roles |-> roles,
                     permission |-> permission,
                     result |-> check_permission(policies, roles, permission)]
    /\ UNCHANGED <<outside_rbac, policies>>

NextRbac ==
    \/ \E role \in AddedRoleNames, perms \in AddedPermissions : AddRole(role, perms)
    \/ \E role \in RoleNames : RemoveRole(role)
    \/ \E roles \in RoleLists : ComputePermissions(roles)
    \/ \E roles \in RoleLists, p \in PermissionAll : CheckPermission(roles, p)

(***************************************************************************)
(* Part VI.  JwtAuth                                                       *)
(*                                                                         *)
(* Time is counted in minutes.  A token is the pair of its payload (the    *)
(* JSON object of the claims, a function from field names to values) and   *)
(* the secret its signature was made with.  Utc::now() is an input of      *)
(* every call; the calls on one JwtAuth come one after another.            *)
(***************************************************************************)

\* the secrets of the JwtAuth instances (jwt_auth1, jwt_auth2 of the tests)
Secrets == {"secret1", "secret2"}

\* JwtAuth::new's issuer and one set through the builder
Issuers == {"llm-orchestrator", "custom-issuer"}

\* builder.expiry_seconds(60) and builder.refresh_expiry_seconds(60)
ExpiryMinutes == 1

\* the JwtAuth instances: JwtAuth::new / JwtAuth::builder(..).build()
JwtAuths ==
    [secret : Secrets, issuer : Issuers,
     expiry : {ExpiryMinutes}, refresh_expiry : {ExpiryMinutes}]

\* Validation::new(algorithm): the default leeway of 60 seconds
Leeway == 1

\* the timestamps of the calls
Clock == 0..MaxClock

\* the role lists put into tokens
TokenRoles == {<<"admin">>, <<"developer">>}

JwtOk(value) == [tag |-> "Ok", value |-> value]

JwtErr(error) == [tag |-> "Err", error |-> error]

\* jsonwebtoken::encode: the claims, signed with the secret
Encode(secret, claims) == [payload |-> claims, signed_with |-> secret]

\* JwtAuth::generate_token; the jti is a fresh UUID, of which only its
\* presence is kept
generate_token(auth, user_id, roles, t) ==
    Encode(auth.secret,
           [sub |-> user_id, roles |-> roles, exp |-> t + auth.expiry,
            iat |-> t, iss |-> auth.issuer, jti |-> "uuid"])

\* JwtAuth::generate_refresh_token
generate_refresh_token(auth, user_id, t) ==
    Encode(auth.secret,
           [sub |-> user_id, exp |-> t + auth.refresh_expiry, iat |-> t,
            iss |-> auth.issuer, jti |-> "uuid", token_type |-> "refresh"])

\* "invalid.token.here": a string that is no JWT
InvalidToken == [payload |-> [garbage |-> TRUE], signed_with |-> "nothing"]

\* mutant of ClaimsRequired: roles may be left out of the payload
ClaimsRequiredWithoutRoles == {"sub", "exp", "iat", "iss"}

\* struct Claims: the fields deserialization requires (jti is an Option)
ClaimsRequired == {"sub", "roles", "exp", "iat", "iss"}

\* struct Claims: all fields
ClaimsFields == ClaimsRequired \cup {"jti"}

\* struct RefreshClaims: every field is required
RefreshClaimsFields == {"sub", "exp", "iat", "iss", "jti", "token_type"}

\* jsonwebtoken::decode::<T>(token, key, validation): signature, then the
\* payload as a T (unknown fields dropped), then expiry with leeway, then issuer
decode(required, fields, auth, token, t) ==
    IF token.signed_with # auth.secret
    THEN JwtErr("JwtError")
    ELSE IF ~(required \subseteq DOMAIN token.payload)
    THEN JwtErr("JwtError")
    ELSE IF token.payload.exp < t - Leeway
    THEN JwtErr("JwtError")
    ELSE IF token.payload.iss # auth.issuer
    THEN JwtErr("JwtError")
    ELSE JwtOk([f \in fields \cap DOMAIN token.payload |-> token.payload[f]])

\* mutant of verify_token: the expiry is left to the library's check
verify_token_leeway_only(auth, token, t) ==
    decode(ClaimsRequired, ClaimsFields, auth, token, t)

\* JwtAuth::verify_token
verify_token(auth, token, t) ==
    LET token_data == decode(ClaimsRequired, ClaimsFields, auth, token, t)
    IN  IF token_data.tag = "Err" THEN token_data
        ELSE IF token_data.value.exp < t THEN JwtErr("TokenExpired")
        ELSE token_data

\* JwtAuth::verify_refresh_token
verify_refresh_token(auth, token, t) ==
    LET token_data == decode(RefreshClaimsFields, RefreshClaimsFields, auth, token, t)
    IN  IF token_data.tag = "Err" THEN token_data
        ELSE IF token_data.value.exp < t THEN JwtErr("TokenExpired")
        ELSE IF token_data.value.token_type # "refresh" THEN JwtErr("InvalidToken")
        ELSE JwtOk(token_data.value.sub)

\* mutant of refresh_access_token: the roles of the call are not used
refresh_access_token_without_roles(auth, refresh_token, roles, t) ==
    LET user_id == verify_refresh_token(auth, refresh_token, t)
    IN  IF user_id.tag = "Err" THEN user_id
        ELSE JwtOk(generate_token(auth, user_id.value, <<>>, t))

\* JwtAuth::refresh_access_token
refresh_access_token(auth, refresh_token, roles, t) ==
    LET user_id == verify_refresh_token(auth, refresh_token, t)
    IN  IF user_id.tag = "Err" THEN user_id
        ELSE JwtOk(generate_token(auth, user_id.value, roles, t))

\* the access tokens any JwtAuth can have issued
AccessTokens ==
    {generate_token(auth, user_id, roles, t) :
        auth \in JwtAuths, user_id \in Users, roles \in TokenRoles, t \in Clock}

\* the refresh tokens any JwtAuth can have issued
RefreshTokens ==
    {generate_refresh_token(auth, user_id, t) :
        auth \in JwtAuths, user_id \in Users, t \in Clock}

\* the tokens handed to the verifying calls
Tokens == AccessTokens \cup RefreshTokens \cup {InvalidToken}

InitJwt ==
    /\ jwt_auth \in JwtAuths
    /\ jwt_call = [op |-> "none"]

\* a call of generate_token
GenerateToken(user_id, roles, t) ==
    /\ jwt_call.op = "none"
    /\ jwt_call' = [op |-> "generate_token", at |-> t,
                    result |-> JwtOk(generate_token(jwt_auth, user_id, roles, t))]
    /\ UNCHANGED <<outside_jwt, jwt_auth>>

\* a call of generate_refresh_token
GenerateRefreshToken(user_id, t) ==
    /\ jwt_call.op = "none"
    /\ jwt_call' = [op |-> "generate_refresh_token", at |-> t,
                    result |-> JwtOk(generate_refresh_token(jwt_auth, user_id, t))]
    /\ UNCHANGED <<outside_jwt, jwt_auth>>

\* a call of verify_token
VerifyToken(token, t) ==
    /\ jwt_call.op = "none"
    /\ jwt_call' = [op |-> "verify_token", token |-> token, at |-> t,
                    result |-> verify_token(jwt_auth, token, t)]
    /\ UNCHANGED <<outside_jwt, jwt_auth>>

\* a call of verify_refresh_token
VerifyRefreshToken(token, t) ==
    /\ jwt_call.op = "none"
    /\ jwt_call' = [op |-> "verify_refresh_token", token |-> token, at |-> t,
                    result |-> verify_refresh_token(jwt_auth, token, t)]
    /\ UNCHANGED <<outside_jwt, jwt_auth>>

\* a call of refresh_access_token
RefreshAccessToken(token, roles, t) ==
    /\ jwt_call.op = "none"
    /\ jwt_call' = [op |-> "refresh_access_token", token |-> token,
                    roles |-> roles, at |-> t,
                    result |-> refresh_access_token(jwt_auth, token, roles, t)]
    /\ UNCHANGED <<outside_jwt, jwt_auth>>

\* the caller has taken the result of the call
JwtReturn ==
    /\ jwt_call.op # "none"
    /\ jwt_call' = [op |-> "none"]
    /\ UNCHANGED <<outside_jwt, jwt_auth>>

NextJwt ==
    \/ \E user_id \in Users, roles \in TokenRoles, t \in Clock :
           GenerateToken(user_id, roles, t)
    \/ \E user_id \in Users, t \in Clock : GenerateRefreshToken(user_id, t)
    \/ \E token \in Tokens, t \in Clock : VerifyToken(token, t)
    \/ \E token \in Tokens, t \in Clock : VerifyRefreshToken(token, t)
    \/ \E token \in Tokens, roles \in TokenRoles, t \in Clock :
           RefreshAccessToken(token, roles, t)
    \/ JwtReturn

(***************************************************************************)
(* Part VII.  AuthMiddleware                                               *)
(*                                                                         *)
(* An Authorization header is the pair of its first characters, up to and  *)
(* including the first space, and the rest.                                *)
(***************************************************************************)

\* the scope lists of the keys handed to the middleware
ScopeLists ==
    {<<>>, <<"workflow:read">>, <<"workflow:delete">>,
     <<"workflow:read", "workflow:execute">>, <<"admin">>, <<"custom:scope">>}

\* scopes_to_permissions: the match of the closure
ScopePermission ==
    [scope \in {"workflow:read", "workflow:write", "workflow:execute",
                "workflow:delete", "execution:read", "execution:cancel", "admin"} |->
        CASE scope = "workflow:read" -> "WorkflowRead"
          [] scope = "workflow:write" -> "WorkflowWrite"
          [] scope = "workflow:execute" -> "WorkflowExecute"
          [] scope = "workflow:delete" -> "WorkflowDelete"
          [] scope = "execution:read" -> "ExecutionRead"
          [] scope = "execution:cancel" -> "ExecutionCancel"
          [] scope = "admin" -> "AdminAccess"]

\* AuthMiddleware::scopes_to_permissions; the Vec is kept as the set of its
\* elements
scopes_to_permissions(scopes) ==
    {ScopePermission[scope] : scope \in Range(scopes) \cap DOMAIN ScopePermission}

\* AuthMiddleware::scopes_to_roles
scopes_to_roles(scopes) ==
    LET has_read == "workflow:read" \in Range(scopes)
        has_write == "workflow:write" \in Range(scopes)
        has_execute == "workflow:execute" \in Range(scopes)
        has_admin == "admin" \in Range(scopes)
    IN  IF has_admin THEN <<"admin">>
        ELSE IF has_write /\ has_execute THEN <<"developer">>
        ELSE IF has_execute THEN <<"executor">>
        ELSE IF has_read THEN <<"viewer">>
        ELSE <<>>

\* what authenticate returns together with what it did on the way: the
\* components it called and the key store it left
Authenticated(result, consulted, ks) ==
    [result |-> result, consulted |-> consulted, keys |-> ks]

\* AuthMiddleware::authenticate_jwt
authenticate_jwt(auth, table, ks, token, t) ==
    LET claims == verify_token(auth, token, t)
    IN  IF claims.tag = "Err" THEN Authenticated(claims, {"jwt_auth"}, ks)
        ELSE Authenticated(
                 JwtOk([user_id |-> claims.value.sub, roles |-> claims.value.roles,
                        permissions |-> compute_permissions(table, claims.value.roles),
                        auth_type |-> [kind |-> "Jwt", of |-> token]]),
                 {"jwt_auth", "rbac"}, ks)

\* AuthMiddleware::authenticate_api_key
authenticate_api_key(ks, api_key, day) ==
    LET out == LookupKeyOutcome(ks, api_key, day)
    IN  IF out.result # "Ok"
        THEN Authenticated(JwtErr(out.result), {"api_key_manager"}, out.keys)
        ELSE Authenticated(
                 JwtOk([user_id |-> out.info[1].user_id,
                        roles |-> scopes_to_roles(out.info[1].scopes),
                        permissions |-> scopes_to_permissions(out.info[1].scopes),
                        auth_type |-> [kind |-> "ApiKey", of |-> out.info[1].id]]),
                 {"api_key_manager"}, out.keys)

\* str::strip_prefix on a header
StripPrefix(header, prefix) ==
    IF header.prefix = prefix THEN Some(header.rest) ELSE None

\* mutant of authenticate: a header without a known scheme is tried as an
\* API key
authenticate_any_scheme(auth, table, ks, authorization_header, t, day) ==
    IF authorization_header = None
    THEN Authenticated(JwtErr("MissingCredentials"), {}, ks)
    ELSE IF StripPrefix(authorization_header[1], "Bearer ") # None
    THEN authenticate_jwt(auth, table, ks, authorization_header[1].rest, t)
    ELSE authenticate_api_key(ks, authorization_header[1].rest, day)

\* AuthMiddleware::authenticate
authenticate(auth, table, ks, authorization_header, t, day) ==
    IF authorization_header = None
    THEN Authenticated(JwtErr("MissingCredentials"), {}, ks)
    ELSE IF StripPrefix(authorization_header[1], "Bearer ") # None
    THEN authenticate_jwt(auth, table, ks, authorization_header[1].rest, t)
    ELSE IF StripPrefix(authorization_header[1], "ApiKey ") # None
    THEN authenticate_api_key(ks, authorization_header[1].rest, day)
    ELSE Authenticated(JwtErr("InvalidCredentials"), {}, ks)

\* RbacEngine::require_permission, which AuthMiddleware::authorize calls
require_permission(table, ctx, permission) ==
    IF check_permission(table, ctx.roles, permission)
    THEN JwtOk("unit")
    ELSE JwtErr("InsufficientPermissions")

\* the Authorization headers of the requests
Headers ==
    {None}
    \cup {Some([prefix |-> "Bearer ", rest |-> token]) : token \in Tokens}
    \cup {Some([prefix |-> "ApiKey ", rest |-> key]) : key \in Plaintexts}
    \cup {Some([prefix |-> p, rest |-> key]) :
             p \in {"InvalidFormat ", "bearer ", "Basic "}, key \in Plaintexts}

InitMiddleware ==
    /\ auth_ctx = None
    /\ auth_call = [op |-> "none"]

\* a call of AuthMiddleware::authenticate; last_call keeps the direct calls
\* of the ApiKeyManager only
Authenticate(authorization_header, t) ==
    /\ auth_call.op = "none"
    /\ LET out == authenticate(jwt_auth, policies, keys, authorization_header, t, now) IN
        /\ keys' = out.keys
        /\ auth_ctx' = IF out.result.tag = "Ok" THEN Some(out.result.value) ELSE auth_ctx
        /\ auth_call' = [op |-> "authenticate", header |-> authorization_header,
                         result |-> out.result, consulted |-> out.consulted,
                         store_before |-> keys, store_after |-> out.keys]
    /\ UNCHANGED <<exec_vars, log_vars, dag_vars, rbac_vars, jwt_vars, file_vars, later_vars,
                   user_keys, now, keys_created, issued, revoked, last_call>>

\* a call of AuthMiddleware::authorize with the context of the request
Authorize(permission) ==
    /\ auth_call.op = "none"
    /\ auth_ctx # None
    /\ auth_call' = [op |-> "authorize", ctx |-> auth_ctx[1],
                     permission |-> permission,
                     result |-> require_permission(policies, auth_ctx[1], permission)]
    /\ UNCHANGED <<exec_vars, log_vars, dag_vars, key_vars, rbac_vars, jwt_vars,
                   file_vars, later_vars, auth_ctx>>

\* the caller has taken the result of the call
AuthReturn ==
    /\ auth_call.op # "none"
    /\ auth_call' = [op |-> "none"]
    /\ UNCHANGED <<exec_vars, log_vars, dag_vars, key_vars, rbac_vars, jwt_vars,
                   file_vars, later_vars, auth_ctx>>

NextMiddleware ==
    \/ \E sc \in ScopeLists : CreateKey("user456", sc, None)
    \/ \E h \in Headers, t \in Clock : Authenticate(h, t)
    \/ \E p \in PermissionAll : Authorize(p)
    \/ AuthReturn

(***************************************************************************)
(* Part VIII.  FileAuditStorage                                            *)
(*                                                                         *)
(* The calls run one after another.  An event is its id and its timestamp; *)
(* the size of a file is counted in lines, the clock in seconds, and a day *)
(* has SecondsPerDay of them.  Every line of the file parses, and no call  *)
(* fails on the file system.                                               *)
(***************************************************************************)

\* the limit AuditFilter::new() sets
DefaultLimit == 100

\* the bound on the store calls of a run
MaxFileStores == 3

\* the last second of the clock
MaxFileTime == 3

SecondsPerDay == 2

\* NaiveDate of a time
DateNaive(t) == t \div SecondsPerDay

\* RotationPolicy
RotationPolicies ==
    {[kind |-> "Never"], [kind |-> "Daily"]}
    \cup {[kind |-> "SizeBased", max_size |-> n] : n \in 1..2}

\* AuditFilter::new(); the filters on fields other than the timestamp are
\* None throughout and left out
AuditFilterNew ==
    [start_time |-> None, end_time |-> None, limit |-> DefaultLimit, offset |-> 0]

\* AuditFilter::with_limit, with_offset, with_time_range
with_limit(filter, limit) == [filter EXCEPT !.limit = limit]

with_offset(filter, offset) == [filter EXCEPT !.offset = offset]

with_time_range(filter, start, end) ==
    [filter EXCEPT !.start_time = Some(start), !.end_time = Some(end)]

\* the filters of the queries
AuditFilters ==
    {AuditFilterNew, with_limit(AuditFilterNew, 1),
     with_offset(AuditFilterNew, 1), with_time_range(AuditFilterNew, 1, 2)}

\* the log a run of the program left at the path: DefaultLimit events
PreviousRunLog == [i \in 1..DefaultLimit |-> [id |-> <<0, i>>, timestamp |-> 0]]

\* the events of this run among events; their ids are <<1, n>>
OfThisRun(events) == {e \in Range(events) : e.id[1] = 1}

\* FileAuditStorage::read_events
read_events(lines) == lines

\* the closure filter_events keeps an event by
PassesFilter(filter, event) ==
    /\ filter.start_time # None => ~(event.timestamp < filter.start_time[1])
    /\ filter.end_time # None => ~(event.timestamp > filter.end_time[1])

RECURSIVE SortByTimestampDesc(_, _)
\* sort_by(|a, b| b.timestamp.cmp(&a.timestamp)), a stable sort: the events
\* of the latest of the times first, in the order they had
SortByTimestampDesc(events, times) ==
    IF times = {} THEN <<>>
    ELSE LET t == CHOOSE x \in times : \A y \in times : y <= x
         IN  SelectSeq(events, LAMBDA e : e.timestamp = t)
                 \o SortByTimestampDesc(events, times \ {t})

\* skip(offset).take(limit)
SkipTake(events, offset, limit) ==
    SubSeq(events, offset + 1, Min({offset + limit, Len(events)}))

\* FileAuditStorage::filter_events
filter_events(events, filter) ==
    LET filtered == SelectSeq(events, LAMBDA e : PassesFilter(filter, e))
        sorted == SortByTimestampDesc(filtered, {e.timestamp : e \in Range(filtered)})
    IN  SkipTake(sorted, filter.offset, filter.limit)

\* FileAuditStorage::rotate_daily and rotate_if_size_exceeded: whether
\* rotate_if_needed calls perform_rotation
RotationNeeded(policy, lines, modified, t) ==
    CASE policy.kind = "Never" -> FALSE
      [] policy.kind = "Daily" -> DateNaive(modified) < DateNaive(t)
      [] policy.kind = "SizeBased" -> Len(lines) >= policy.max_size

\* FileAuditStorage::new on a path where there is no file or the log of a
\* previous run
InitFile ==
    /\ rotation \in RotationPolicies
    /\ file_lines \in {<<>>, PreviousRunLog}
    /\ file_modified = 0
    /\ rotated = <<>>
    /\ file_clock = 0
    /\ file_stored = file_lines
    /\ file_call = [op |-> "none"]
    /\ current_file = TRUE
    /\ delete_call = [pc |-> "idle"]
    /\ cutoffs = {}

\* FileAuditStorage::store of an event created now: rotate_if_needed, whose
\* rename replaces a file of the same name and which reopens the file, then
\* the line is appended if current_file is Some, else "File not open"
FileStore ==
    /\ Cardinality(OfThisRun(file_stored)) < MaxFileStores
    /\ LET event == [id |-> <<1, Cardinality(OfThisRun(file_stored)) + 1>>,
                     timestamp |-> file_clock]
           rotate == RotationNeeded(rotation, file_lines, file_modified, file_clock)
           lines == IF rotate THEN <<>> ELSE file_lines
           open == rotate \/ current_file
       IN  /\ rotated' = IF rotate THEN (file_clock :> file_lines) @@ rotated
                         ELSE rotated
           /\ current_file' = open
           /\ file_lines' = IF open THEN Append(lines, event) ELSE lines
           /\ file_stored' = IF open THEN Append(file_stored, event) ELSE file_stored
           /\ file_modified' = IF open THEN file_clock ELSE file_modified
           /\ file_call' = [op |-> "store", event |-> event, rotated |-> rotate,
                            result |-> IF open THEN "Ok" ELSE "IoError"]
    /\ UNCHANGED <<outside_file, rotation, file_clock, delete_call, cutoffs>>

\* FileAuditStorage::query
FileQuery(filter) ==
    /\ file_call' = [op |-> "query", filter |-> filter,
                     result |-> filter_events(read_events(file_lines), filter)]
    /\ UNCHANGED <<outside_file, rotation, file_lines, file_modified, rotated,
                   file_clock, file_stored, current_file, delete_call, cutoffs>>

\* FileAuditStorage::count
FileCount(filter) ==
    /\ file_call' = [op |-> "count", filter |-> filter, lines |-> file_lines,
                     result |-> Len(filter_events(read_events(file_lines), filter))]
    /\ UNCHANGED <<outside_file, rotation, file_lines, file_modified, rotated,
                   file_clock, file_stored, current_file, delete_call, cutoffs>>

\* delete_older_than: partition(|e| e.timestamp >= cutoff)
partition(events, cutoff) ==
    [keep |-> SelectSeq(events, LAMBDA e : e.timestamp >= cutoff),
     delete |-> SelectSeq(events, LAMBDA e : ~(e.timestamp >= cutoff))]

\* what a finished delete_older_than leaves in file_call
Deleted(cutoff, before, modified_before, deleted_count) ==
    [op |-> "delete_older_than", cutoff |-> cutoff, before |-> before,
     modified_before |-> modified_before, result |-> deleted_count]

\* delete_older_than, up to the test of deleted_count: the events are read
\* and partitioned; with nothing to delete the call returns 0
DeleteBegin(cutoff) ==
    /\ delete_call.pc = "idle"
    /\ cutoffs' = cutoffs \cup {cutoff}
    /\ LET p == partition(read_events(file_lines), cutoff) IN
        IF Len(p.delete) > 0
        THEN /\ delete_call' = [pc |-> "close", cutoff |-> cutoff, keep |-> p.keep,
                                deleted_count |-> Len(p.delete),
                                before |-> file_lines,
                                modified_before |-> file_modified]
             /\ UNCHANGED file_call
        ELSE /\ delete_call' = [pc |-> "idle"]
             /\ file_call' = Deleted(cutoff, file_lines, file_modified, 0)
    /\ UNCHANGED <<outside_file, rotation, file_lines, file_modified, rotated,
                   file_clock, file_stored, current_file>>

\* delete_older_than: current_file is set to None
DeleteClose ==
    /\ delete_call.pc = "close"
    /\ current_file' = FALSE
    /\ delete_call' = [delete_call EXCEPT !.pc = "rewrite"]
    /\ UNCHANGED <<outside_file, rotation, file_lines, file_modified, rotated,
                   file_clock, file_stored, file_call, cutoffs>>

\* delete_older_than: the file is truncated and the kept events written
DeleteRewrite ==
    /\ delete_call.pc = "rewrite"
    /\ file_lines' = delete_call.keep
    /\ file_modified' = file_clock
    /\ delete_call' = [delete_call EXCEPT !.pc = "reopen"]
    /\ UNCHANGED <<outside_file, rotation, rotated, file_clock, file_stored,
                   file_call, current_file, cutoffs>>

\* delete_older_than: open_file, and the call returns deleted_count
DeleteReopen ==
    /\ delete_call.pc = "reopen"
    /\ current_file' = TRUE
    /\ file_call' = Deleted(delete_call.cutoff, delete_call.before,
                            delete_call.modified_before, delete_call.deleted_count)
    /\ delete_call' = [pc |-> "idle"]
    /\ UNCHANGED <<outside_file, rotation, file_lines, file_modified, rotated,
                   file_clock, file_stored, cutoffs>>

\* a second passes
FileTick ==
    /\ file_clock < MaxFileTime
    /\ file_clock' = file_clock + 1
    /\ UNCHANGED <<outside_file, rotation, file_lines, file_modified, rotated,
                   file_stored, file_call, current_file, delete_call, cutoffs>>

\* no delete_older_than call is running
DeleteIdle == delete_call.pc = "idle"

\* the calls of a caller that waits for each call to return
FileStoreSeq == DeleteIdle /\ FileStore

FileQuerySeq(filter) == DeleteIdle /\ FileQuery(filter)

FileCountSeq(filter) == DeleteIdle /\ FileCount(filter)

\* the cutoffs of the delete_older_than calls: now less a retention window,
\* after the first second
Cutoffs == 1..(MaxFileTime - 1)

NextFile ==
    \/ FileStoreSeq
    \/ \E filter \in AuditFilters : FileQuerySeq(filter)
    \/ \E filter \in AuditFilters : FileCountSeq(filter)
    \/ \E cutoff \in Cutoffs : DeleteBegin(cutoff)
    \/ DeleteClose
    \/ DeleteRewrite
    \/ DeleteReopen
    \/ FileTick

\* store calls that run while delete_older_than calls run
NextFileConcurrent ==
    \/ FileStore
    \/ \E cutoff \in Cutoffs : DeleteBegin(cutoff)
    \/ DeleteClose
    \/ DeleteRewrite
    \/ DeleteReopen
    \/ FileTick

(***************************************************************************)
(* Specifications.  Each runs one part; the other part stays as it is.         *)
(***************************************************************************)

\* the executor before any workflow is run
ExecIdle ==
    /\ depends_on = [s \in Steps |-> {}]
    /\ condition = [s \in Steps |-> "none"]
    /\ max_attempts = 1
    /\ max_concurrency = 0
    /\ timeout_seconds = [s \in Steps |-> None]
    /\ step_statuses = [s \in Steps |-> "Pending"]
    /\ step_results = <<>>
    /\ set_output_calls = [s \in Steps |-> 0]
    /\ execution_order = ExecutionOrder(depends_on)
    /\ pc_main = "dispatch"
    /\ idx = 1
    /\ completed_steps = {}
    /\ tasks = <<>>
    /\ returned = <<>>
    /\ task_pc = [s \in Steps |-> "unspawned"]
    /\ attempts = [s \in Steps |-> 0]
    /\ attempt_log = [s \in Steps |-> <<>>]
    /\ sleeps = [s \in Steps |-> 0]

\* the start of execute() on a workflow some of whose steps have
\* timeout_seconds: the steps independent or the later two after the first,
\* a condition on the last step only
InitExecTimeouts ==
    /\ depends_on \in {[s \in Steps |-> {}], [s \in Steps |-> IF s = 1 THEN {} ELSE {1}]}
    /\ condition \in {[s \in Steps |-> IF s = NSteps THEN c ELSE "none"] : c \in Conditions}
    /\ max_attempts \in 1..MaxAttempts
    /\ max_concurrency \in 0..MaxConcurrency
    /\ timeout_seconds \in [Steps -> {None, Some(1)}]
    /\ step_statuses = [s \in Steps |-> "Pending"]
    /\ step_results = <<>>
    /\ set_output_calls = [s \in Steps |-> 0]
    /\ execution_order = ExecutionOrder(depends_on)
    /\ pc_main = "dispatch"
    /\ idx = 1
    /\ completed_steps = {}
    /\ tasks = <<>>
    /\ returned = <<>>
    /\ task_pc = [s \in Steps |-> "unspawned"]
    /\ attempts = [s \in Steps |-> 0]
    /\ attempt_log = [s \in Steps |-> <<>>]
    /\ sleeps = [s \in Steps |-> 0]

\* the logger before any event is logged
LogIdle ==
    /\ enabled = TRUE
    /\ previous_hash = None
    /\ storage = <<>>
    /\ call_pc = [c \in Callers |-> "idle"]
    /\ call_event = [c \in Callers |-> NoEvent]
    /\ call_result = [c \in Callers |-> "none"]
    /\ events_created = 0

\* no workflow handed in for building
DagIdle ==
    /\ wf_depends_on = [s \in Steps |-> {}]
    /\ dag_result = DagNone
    /\ new_result = "none"
    /\ executor_dag = None
    /\ cli_result = "none"

\* the RBAC engine with its predefined roles, before any call
RbacIdle ==
    /\ policies = DefaultPolicies
    /\ rbac_call = [op |-> "none"]

\* the JwtAuth of the tests, before any call
JwtIdle ==
    /\ jwt_auth = [secret |-> "secret1", issuer |-> "llm-orchestrator",
                   expiry |-> ExpiryMinutes, refresh_expiry |-> ExpiryMinutes]
    /\ jwt_call = [op |-> "none"]

(***************************************************************************)
(* Part IX.  compute_hash over a persisted event                           *)
(***************************************************************************)

\* the arguments of AuditEvent::new for the events that get edited
TamperPayloads ==
    [event_type : {"authentication"},
     action : {"x", "x|user"},
     resource_type : {"user"},
     resource_id : {"y", "user|y"},
     result : {[tag |-> "success", message |-> ""],
               [tag |-> "failure", message |-> "Authentication failed"]},
     user_id : {Some("user-1")}]

\* the event_hash of an earlier event of the chain
EarlierHash(n) == compute_hash(NewEvent(CHOOSE p \in Payloads : TRUE, n))

\* the stored fields of an AuditEvent other than event_hash, each with the
\* values an edit can give it
FieldValues ==
    [id |-> {1, 2},
     timestamp |-> {1, 2},
     event_type |-> {"authentication", "authorization"},
     user_id |-> {None, Some("user-1"), Some("user-2")},
     action |-> {"x", "x|user"},
     resource_type |-> {"user", "workflow"},
     resource_id |-> {"y", "user|y"},
     result |-> {[tag |-> "success", message |-> ""],
                 [tag |-> "failure", message |-> "Authentication failed"],
                 [tag |-> "failure", message |-> "Permission denied"]},
     details |-> {"null", "{}"},
     ip_address |-> {None, Some("10.0.0.1")},
     user_agent |-> {None, Some("curl")},
     request_id |-> {None, Some("req-1")},
     previous_hash |-> {None, Some(EarlierHash(0)), Some(EarlierHash(1))}]

StoredFields == DOMAIN FieldValues

\* one event as log_event persisted it
InitTamper ==
    /\ \E p \in TamperPayloads, prev \in {None, Some(EarlierHash(0))} :
        persisted = Chained(NewEvent(p, 1), prev)
    /\ edited = persisted
    /\ recomputed = compute_hash(persisted)
    /\ edits = 0

\* one field of the stored event is overwritten, and the hash recomputed
\* from the stored fields as a verifier does
EditField(field, value) ==
    /\ edits < MaxEdits
    /\ value # edited[field]
    /\ edited' = [edited EXCEPT ![field] = value]
    /\ recomputed' = compute_hash(edited')
    /\ edits' = edits + 1
    /\ UNCHANGED <<persisted, outside_tamper>>

NextTamper == \E field \in StoredFields : \E value \in FieldValues[field] : EditField(field, value)

TamperIdle ==
    /\ persisted = NoEvent
    /\ edited = NoEvent
    /\ recomputed = EmptyString
    /\ edits = 0

(***************************************************************************)
(* Part X.  AuditRetentionManager                                          *)
(***************************************************************************)

RetTimes == 0..MaxTicks

\* cleanup: cutoff = Utc::now() - Duration::days(retention_days)
cutoff_date(utc_now, days) == utc_now - days

\* AuditStorage::delete_older_than on the events of the storage
OlderThan(events, cutoff) == {t \in events : t < cutoff}

\* the state start_background_cleanup leaves: the task is spawned and the
\* first tick of time::interval completes at once
InitRetention ==
    /\ retention_days \in 1..MaxRetention
    /\ ret_pc = "waiting"
    /\ tick_ready = TRUE
    /\ abort_requested = FALSE
    /\ ret_now \in {MaxRetention}
    /\ ret_ticks = 0
    /\ ret_calls = <<>>
    /\ ret_results = <<>>
    /\ ret_events \in SUBSET (0..MaxRetention)
    /\ calls_at_cancel = 0

\* the interval elapses; a day passes and an event is stored or not
IntervalElapses ==
    /\ ~tick_ready
    /\ ret_now < MaxRetention + MaxTicks
    /\ tick_ready' = TRUE
    /\ ret_now' = ret_now + 1
    /\ \E stored \in BOOLEAN :
        ret_events' = IF stored THEN ret_events \cup {ret_now} ELSE ret_events
    /\ UNCHANGED <<retention_days, ret_pc, abort_requested, ret_ticks, ret_calls,
                   ret_results, calls_at_cancel, outside_retention>>

\* interval_timer.tick().await completes
LoopTick ==
    /\ ret_pc = "waiting"
    /\ tick_ready
    /\ ret_ticks < MaxTicks
    /\ tick_ready' = FALSE
    /\ ret_ticks' = ret_ticks + 1
    /\ ret_pc' = "cleanup"
    /\ UNCHANGED <<retention_days, abort_requested, ret_now, ret_calls, ret_results,
                   ret_events, calls_at_cancel, outside_retention>>

\* cleanup() computes the cutoff and calls delete_older_than
CleanupCall ==
    /\ ret_pc = "cleanup"
    /\ ret_calls' = Append(ret_calls, cutoff_date(ret_now, retention_days))
    /\ ret_pc' = "deleting"
    /\ UNCHANGED <<retention_days, tick_ready, abort_requested, ret_now, ret_ticks,
                   ret_results, ret_events, calls_at_cancel, outside_retention>>

\* mutant of CleanupErr: the error leaves the loop
CleanupErrEndsLoop ==
    /\ ret_pc = "deleting"
    /\ ret_results' = Append(ret_results, "Err")
    /\ ret_pc' = "ended"
    /\ UNCHANGED <<retention_days, tick_ready, abort_requested, ret_now, ret_ticks,
                   ret_calls, ret_events, calls_at_cancel, outside_retention>>

\* delete_older_than returns Ok: the Ok arm logs and the loop goes round
CleanupOk ==
    /\ ret_pc = "deleting"
    /\ ret_events' = ret_events \ OlderThan(ret_events, ret_calls[Len(ret_calls)])
    /\ ret_results' = Append(ret_results, "Ok")
    /\ ret_pc' = "waiting"
    /\ UNCHANGED <<retention_days, tick_ready, abort_requested, ret_now, ret_ticks,
                   ret_calls, calls_at_cancel, outside_retention>>

\* delete_older_than returns Err: the Err arm logs and the loop goes round
CleanupErr ==
    /\ ret_pc = "deleting"
    /\ ret_results' = Append(ret_results, "Err")
    /\ ret_pc' = "waiting"
    /\ UNCHANGED <<retention_days, tick_ready, abort_requested, ret_now, ret_ticks,
                   ret_calls, ret_events, calls_at_cancel, outside_retention>>

\* JoinHandle::abort
Abort ==
    /\ ~abort_requested
    /\ abort_requested' = TRUE
    /\ UNCHANGED <<retention_days, ret_pc, tick_ready, ret_now, ret_ticks, ret_calls,
                   ret_results, ret_events, calls_at_cancel, outside_retention>>

\* the abort takes effect: the runtime drops the task at one of its two
\* awaits.  Dropped inside delete_older_than, the storage has deleted or not
AbortTakesEffect ==
    /\ abort_requested
    /\ ret_pc \in {"waiting", "deleting"}
    /\ ret_pc' = "cancelled"
    /\ calls_at_cancel' = Len(ret_calls)
    /\ \E deleted \in BOOLEAN :
        ret_events' = IF deleted /\ ret_pc = "deleting"
                      THEN ret_events \ OlderThan(ret_events, ret_calls[Len(ret_calls)])
                      ELSE ret_events
    /\ UNCHANGED <<retention_days, tick_ready, abort_requested, ret_now, ret_ticks,
                   ret_calls, ret_results, outside_retention>>

NextRetention ==
    \/ IntervalElapses
    \/ LoopTick
    \/ CleanupCall
    \/ CleanupOk
    \/ CleanupErr
    \/ Abort
    \/ AbortTakesEffect

\* no background task
RetentionIdle ==
    /\ retention_days = 1
    /\ ret_pc = "none"
    /\ tick_ready = FALSE
    /\ abort_requested = FALSE
    /\ ret_now = 0
    /\ ret_ticks = 0
    /\ ret_calls = <<>>
    /\ ret_results = <<>>
    /\ ret_events = {}
    /\ calls_at_cancel = 0

(***************************************************************************)
(* Part XI.  lookup_key and revoke_key, step by step                       *)
(***************************************************************************)

\* the id create_key gave the key with this plaintext; 0 when it gave none
KeyIdOf(key) == IF key = InvalidKey THEN 0 ELSE key[2]

InitLookup ==
    /\ lk_pc = "idle"
    /\ lk_call = [result |-> "none"]
    /\ rv_pc = "idle"
    /\ rv_id = 0

\* lookup_key is called
LookupCall(key) ==
    /\ lk_pc = "idle"
    /\ lk_pc' = "lookup"
    /\ lk_call' = [key |-> key, revoked_before |-> revoked,
                   raced |-> rv_pc # "idle" /\ rv_id = KeyIdOf(key),
                   found |-> None, checked_at |-> now, result |-> "none",
                   info |-> None]
    /\ UNCHANGED <<key_vars, rv_pc, rv_id, outside_lookup>>

\* lookup_key: store.lookup_key(&key_hash), None gives ApiKeyNotFound
LookupFirst ==
    /\ lk_pc = "lookup"
    /\ LET key_info == StoreLookup(keys, hash_key(lk_call.key)) IN
        IF key_info = None
        THEN /\ lk_call' = [lk_call EXCEPT !.result = "ApiKeyNotFound"]
             /\ lk_pc' = "idle"
        ELSE /\ lk_call' = [lk_call EXCEPT !.found = key_info]
             /\ lk_pc' = "check"
    /\ UNCHANGED <<key_vars, rv_pc, rv_id, outside_lookup>>

\* lookup_key: the expiry check on the info the first lookup cloned
LookupCheckExpiry ==
    /\ lk_pc = "check"
    /\ IF IsExpired(lk_call.found[1], now)
       THEN /\ lk_call' = [lk_call EXCEPT !.result = "ApiKeyExpired", !.checked_at = now]
            /\ lk_pc' = "idle"
       ELSE /\ lk_call' = [lk_call EXCEPT !.checked_at = now]
            /\ lk_pc' = "touch"
    /\ UNCHANGED <<key_vars, rv_pc, rv_id, outside_lookup>>

\* mutant of LookupTouch: the cloned info is written back with the new
\* last_used_at
LookupTouchWritesBack ==
    /\ lk_pc = "touch"
    /\ keys' = (hash_key(lk_call.key) :> [lk_call.found[1] EXCEPT !.last_used_at = Some(now)])
                @@ keys
    /\ lk_pc' = "refetch"
    /\ UNCHANGED <<user_keys, now, keys_created, issued, revoked, last_call,
                   lk_call, rv_pc, rv_id, outside_lookup>>

\* lookup_key: store.update_last_used(&key_info.id)
LookupTouch ==
    /\ lk_pc = "touch"
    /\ keys' = UpdateLastUsed(keys, lk_call.found[1].id, now)
    /\ lk_pc' = "refetch"
    /\ UNCHANGED <<user_keys, now, keys_created, issued, revoked, last_call,
                   lk_call, rv_pc, rv_id, outside_lookup>>

\* lookup_key: the second store.lookup_key(&key_hash)
LookupRefetch ==
    /\ lk_pc = "refetch"
    /\ LET updated == StoreLookup(keys, hash_key(lk_call.key)) IN
        lk_call' = [lk_call EXCEPT
                       !.result = IF updated = None THEN "ApiKeyNotFound" ELSE "Ok",
                       !.info = updated]
    /\ lk_pc' = "idle"
    /\ UNCHANGED <<key_vars, rv_pc, rv_id, outside_lookup>>

\* revoke_key is called and the store's revoke_key runs keys.retain
RevokeRetain(key_id) ==
    /\ rv_pc = "idle"
    /\ keys' = RetainOtherKeys(keys, key_id)
    /\ rv_pc' = "user_keys"
    /\ rv_id' = key_id
    /\ lk_call' = IF lk_pc # "idle" /\ KeyIdOf(lk_call.key) = key_id
                  THEN [lk_call EXCEPT !.raced = TRUE] ELSE lk_call
    /\ UNCHANGED <<user_keys, now, keys_created, issued, revoked, last_call,
                   lk_pc, outside_lookup>>

\* the store's revoke_key goes over user_keys and returns
RevokeReturn ==
    /\ rv_pc = "user_keys"
    /\ user_keys' = [u \in DOMAIN user_keys |->
                        SelectSeq(user_keys[u], LAMBDA id : IsOtherId(id, rv_id))]
    /\ revoked' = revoked \cup {rv_id}
    /\ rv_pc' = "idle"
    /\ UNCHANGED <<keys, now, keys_created, issued, last_call,
                   lk_pc, lk_call, rv_id, outside_lookup>>

NextLookup ==
    \/ \E u \in Users, sc \in TestScopes, d \in ExpiresInDays : CreateKey(u, sc, d)
    \/ Tick
    \/ \E k \in Plaintexts : LookupCall(k)
    \/ LookupFirst
    \/ LookupCheckExpiry
    \/ LookupTouch
    \/ LookupRefetch
    \/ \E id \in KeyIds : RevokeRetain(id)
    \/ RevokeReturn

LookupIdle == InitLookup

\* the parts after Part VIII, left as they are
LaterIdle == TamperIdle /\ RetentionIdle /\ LookupIdle

FileIdle ==
    /\ rotation = [kind |-> "Never"]
    /\ file_lines = <<>>
    /\ file_modified = 0
    /\ rotated = <<>>
    /\ file_clock = 0
    /\ file_stored = <<>>
    /\ file_call = [op |-> "none"]
    /\ current_file = TRUE
    /\ delete_call = [pc |-> "idle"]
    /\ cutoffs = {}

\* the parts that a specification leaves as they are
AuthIdle == InitKeys /\ RbacIdle /\ JwtIdle /\ InitMiddleware /\ FileIdle /\ LaterIdle

\* one execute() call of a WorkflowExecutor
Init == InitExec /\ LogIdle /\ DagIdle /\ AuthIdle

Next == NextExec

Spec == Init /\ [][Next]_vars

\* one execute() call on a workflow with per-step timeouts
InitTimeout == InitExecTimeouts /\ LogIdle /\ DagIdle /\ AuthIdle

SpecTimeout == InitTimeout /\ [][NextExec]_vars

\* concurrent log_event calls on one AuditLogger
InitAudit == ExecIdle /\ InitLog /\ DagIdle /\ AuthIdle

NextAudit == NextLog

SpecAudit == InitAudit /\ [][NextAudit]_vars

\* log_event calls on one AuditLogger, one after another
NextAuditSeq == NextLogSeq

SpecAuditSeq == InitAudit /\ [][NextAuditSeq]_vars

\* one workflow handed to from_workflow, to WorkflowExecutor::new or to the
\* CLI's validate_workflow
InitBuild == ExecIdle /\ LogIdle /\ InitDag /\ AuthIdle

NextBuild == NextDag

SpecBuild == InitBuild /\ [][NextBuild]_vars

\* ApiKeyManager calls on one store, one after another
InitApiKeys == ExecIdle /\ LogIdle /\ DagIdle /\ AuthIdle

NextApiKeys == NextKeys

SpecApiKeys == InitApiKeys /\ [][NextApiKeys]_vars

\* calls on one RbacEngine
InitRbacEngine ==
    /\ ExecIdle /\ LogIdle /\ DagIdle
    /\ InitKeys /\ InitRbac /\ JwtIdle /\ InitMiddleware /\ FileIdle /\ LaterIdle

SpecRbac == InitRbacEngine /\ [][NextRbac]_vars

\* calls on one JwtAuth
InitJwtAuth ==
    /\ ExecIdle /\ LogIdle /\ DagIdle
    /\ InitKeys /\ RbacIdle /\ InitJwt /\ InitMiddleware /\ FileIdle /\ LaterIdle

SpecJwt == InitJwtAuth /\ [][NextJwt]_vars

\* requests through one AuthMiddleware over a JwtAuth, an ApiKeyManager and
\* the RbacEngine with its predefined roles
InitAuthMiddleware == ExecIdle /\ LogIdle /\ DagIdle /\ AuthIdle

SpecMiddleware == InitAuthMiddleware /\ [][NextMiddleware]_vars

\* calls on one FileAuditStorage, one after another
InitFileStorage ==
    /\ ExecIdle /\ LogIdle /\ DagIdle
    /\ InitKeys /\ RbacIdle /\ JwtIdle /\ InitMiddleware /\ InitFile /\ LaterIdle

SpecFile == InitFileStorage /\ [][NextFile]_vars

\* store and delete_older_than calls that run concurrently on one
\* FileAuditStorage that never rotates and began with no file
InitFileConcurrent ==
    /\ InitFileStorage
    /\ rotation = [kind |-> "Never"]
    /\ file_lines = <<>>

SpecFileConcurrent == InitFileConcurrent /\ [][NextFileConcurrent]_vars

\* fields of one persisted audit event are edited and its hash is recomputed
InitTamperEvidence ==
    /\ ExecIdle /\ LogIdle /\ DagIdle
    /\ InitKeys /\ RbacIdle /\ JwtIdle /\ InitMiddleware /\ FileIdle /\ InitTamper /\ RetentionIdle /\ LookupIdle

SpecTamper == InitTamperEvidence /\ [][NextTamper]_vars

\* the background cleanup task of one AuditRetentionManager and its handle
InitRetentionTask ==
    /\ ExecIdle /\ LogIdle /\ DagIdle
    /\ InitKeys /\ RbacIdle /\ JwtIdle /\ InitMiddleware /\ FileIdle /\ TamperIdle
    /\ InitRetention /\ LookupIdle

SpecRetention == InitRetentionTask /\ [][NextRetention]_vars

\* one lookup_key call at a time and one revoke_key call at a time, running
\* concurrently on the store of one ApiKeyManager
InitLookupRace == ExecIdle /\ LogIdle /\ DagIdle /\ AuthIdle

SpecLookupRace == InitLookupRace /\ [][NextLookup]_vars

(***************************************************************************)
(* Properties of WorkflowExecutor::execute                                 *)
(***************************************************************************)

\* the position of a step in execution_order
Position(s) == CHOOSE i \in 1..Len(execution_order) : execution_order[i] = s

\* the steps that list a step of S in depends_on
Dependents(S) == {d \in Steps : depends_on[d] \cap S # {}}

RECURSIVE DownstreamFrom(_, _)
DownstreamFrom(S, k) ==
    IF k = 0 THEN S ELSE DownstreamFrom(S \cup Dependents(S), k - 1)

\* the steps that depend, directly or through other steps, on s
Downstream(s) == DownstreamFrom(Dependents({s}), NSteps)

\* the spawned step tasks that have not finished
InFlight == {s \in Steps : task_pc[s] \in {"spawned", "attempt", "recorded"}}

\* execute() has returned
Returned == pc_main \in {"returned_ok", "returned_err"}

\* C1: when execute() returns Ok, the returned map has an entry for every
\* declared step, and each entry's status is Completed, Failed or Skipped.
ReturnedResultsComplete ==
    pc_main = "returned_ok" =>
        /\ DOMAIN returned = Steps
        /\ \A s \in Steps : returned[s].status \in Terminal

\* C1 witness: execute() returned Ok with a Completed, a Failed and a Skipped
\* step in the map
ReturnedEveryStatus ==
    /\ pc_main = "returned_ok"
    /\ {returned[s].status : s \in DOMAIN returned} = Terminal

\* C2: the first attempt of a step begins only when every step of its
\* depends_on has a recorded result with a terminal status.
FirstAttemptAfterDependencies ==
    [][\A s \in Steps :
         (attempts[s] = 0 /\ attempts'[s] = 1) =>
            \A d \in depends_on[s] :
                /\ d \in DOMAIN step_results
                /\ step_results[d].status \in Terminal
                /\ step_statuses[d] \in Terminal]_vars

\* C2 witness: a step with two dependencies is running an attempt
DependentStepAttempting ==
    \E s \in Steps :
        /\ Cardinality(depends_on[s]) = 2
        /\ task_pc[s] = "attempt"

\* C3: a step whose condition evaluates to false is marked Skipped with empty
\* outputs and is added to the completed set, so that its dependents pass
\* their barrier.
SkippedStepEntersCompleted ==
    \A s \in Steps :
        step_statuses[s] = "Skipped" =>
            /\ step_results[s] = SkippedResult
            /\ s \in completed_steps

\* C4: a Failed step does not abort the workflow: its task puts it in the
\* completed set, and the run cannot come to rest before every step
\* downstream of it is terminal and execute() has returned results for all
\* steps.  Stated for the workflows all of whose conditions evaluate, so
\* that no run ends by the error of a condition.
FailedStepDoesNotAbort ==
    (\A s \in Steps : condition[s] # "error") =>
        \A s \in Steps :
            step_statuses[s] = "Failed" =>
                /\ task_pc[s] = "done" => s \in completed_steps
                /\ ~ENABLED Next =>
                    /\ \A d \in Downstream(s) : step_statuses[d] \in Terminal
                    /\ pc_main = "returned_ok"
                    /\ DOMAIN returned = Steps

\* C5: execute() returns for every valid workflow whose attempts terminate:
\* the run never comes to rest with the dispatch loop still waiting.
ExecuteNeverStuck == ENABLED Next \/ Returned

\* C8: with max_concurrency = N > 0, at most N spawned step tasks are
\* unfinished at any time.
InFlightWithinLimit ==
    max_concurrency > 0 => Cardinality(InFlight) <= max_concurrency

\* C8 witness: the loop waits at the throttle with max_concurrency = 2 tasks
\* in flight and a step left to dispatch
ThrottleHoldsAtLimit ==
    /\ max_concurrency = 2
    /\ pc_main = "throttle"
    /\ Cardinality(InFlight) = 2
    /\ idx < Len(execution_order)

\* C9: with max_concurrency = 1 no two step tasks overlap, and the steps
\* start and finish in the order of execution_order: when a step has
\* started, every step before it in the order has finished or was skipped.
SequentialInOrder ==
    max_concurrency = 1 =>
        /\ Cardinality(InFlight) <= 1
        /\ \A s, t \in Steps :
             (Position(t) < Position(s) /\ task_pc[s] # "unspawned") =>
                /\ step_statuses[t] \in Terminal
                /\ task_pc[t] \in {"unspawned", "done"}

\* C9 witness: max_concurrency = 1, an order that differs from the
\* declaration order, every step run and execute() returned
SequentialRunReturned ==
    /\ max_concurrency = 1
    /\ execution_order # [i \in 1..NSteps |-> i]
    /\ pc_main = "returned_ok"
    /\ \A s \in Steps : task_pc[s] = "done"

\* the status changes of the step state machine
StatusTransitions ==
    {<<"Pending", "Running">>, <<"Pending", "Skipped">>,
     <<"Running", "Completed">>, <<"Running", "Failed">>}

\* C10: a step's status moves only Pending -> Running -> Completed or Failed,
\* or Pending -> Skipped; a step is Skipped exactly when the loop has
\* evaluated its condition to false; a terminal status never changes.
StatusStateMachine ==
    /\ [](\A s \in Steps :
            step_statuses[s] = "Skipped"
                <=> (Position(s) < idx /\ condition[s] = "false"))
    /\ [][\A s \in Steps :
            step_statuses'[s] # step_statuses[s] =>
                <<step_statuses[s], step_statuses'[s]>> \in StatusTransitions]_vars

\* C10 witness: one step Completed, one Failed, one Skipped
EveryTerminalStatus == {step_statuses[s] : s \in Steps} = Terminal

\* C11: every recorded StepResult has empty outputs unless its status is
\* Completed, and carries an error exactly when its status is Failed.
StepResultWellFormed ==
    \A s \in DOMAIN step_results :
        LET r == step_results[s] IN
            /\ r.status \in Terminal
            /\ r.status # "Completed" => r.outputs = "empty"
            /\ r.error # None <=> r.status = "Failed"

\* C11 witness: the recorded results hold a Completed result with outputs, a
\* Failed result and a Skipped result
EveryKindOfResultRecorded ==
    /\ {step_results[s].status : s \in DOMAIN step_results} = Terminal
    /\ \E s \in DOMAIN step_results : step_results[s].outputs # "empty"

\* C12: a constructed executor's execute() never returns Err: a condition
\* that fails to evaluate is captured in the step's StepResult instead.
ExecuteNeverReturnsErr ==
    /\ pc_main # "returned_err"
    /\ \A s \in Steps :
         (condition[s] = "error" /\ Position(s) < idx) => s \in DOMAIN step_results

\* the failed attempts of a step that were followed by another attempt
FailuresFollowedByAttempt(s) ==
    {i \in 1..Len(attempt_log[s]) : attempt_log[s][i] = "err" /\ i < attempts[s]}

\* C13: with max_attempts = k the attempt runs at most k times; nothing
\* follows a successful attempt and the step is Completed by it; the step is
\* Failed only after exactly k attempts that all failed, with the error of
\* the k-th attempt in its result.
RetryAttemptsBounded ==
    \A s \in Steps :
        LET log == attempt_log[s] IN
            /\ attempts[s] <= max_attempts
            /\ Len(log) <= attempts[s]
            /\ \A i \in 1..Len(log) - 1 : log[i] = "err"
            /\ (log # <<>> /\ log[Len(log)] = "ok") <=> step_statuses[s] = "Completed"
            /\ step_statuses[s] = "Completed" => Len(log) = attempts[s]
            /\ step_statuses[s] = "Failed" =>
                /\ Len(log) = max_attempts
                /\ \A i \in 1..Len(log) : log[i] = "err"
                /\ step_results[s].error = Some(max_attempts)

\* C13 witness: with max_attempts = 2, one step Failed after two failed
\* attempts and another Completed by its second attempt
FailedAndCompletedOnSecondAttempt ==
    /\ max_attempts = 2
    /\ \E s, t \in Steps :
        /\ step_statuses[s] = "Failed" /\ attempt_log[s] = <<"err", "err">>
        /\ step_statuses[t] = "Completed" /\ attempt_log[t] = <<"err", "ok">>

\* C14: the backoff sleeps of a step are as many as its failed attempts that
\* were followed by another attempt: none after a success, none after the
\* final attempt; with max_attempts = 1 a dispatched step makes exactly one
\* attempt and never sleeps.
SleepsOnlyBetweenAttempts ==
    \A s \in Steps :
        /\ sleeps[s] = Cardinality(FailuresFollowedByAttempt(s))
        /\ step_statuses[s] = "Completed" => sleeps[s] = Len(attempt_log[s]) - 1
        /\ step_statuses[s] = "Failed" => sleeps[s] = max_attempts - 1
        /\ max_attempts = 1 =>
            /\ sleeps[s] = 0
            /\ step_statuses[s] \in {"Completed", "Failed"} => attempts[s] = 1

\* C14 witness: a step that failed once, slept once and succeeded, next to a
\* step that succeeded at once and never slept
SleptOnceThenSucceeded ==
    \E s, t \in Steps :
        /\ step_statuses[s] = "Completed" /\ attempts[s] = 2 /\ sleeps[s] = 1
        /\ step_statuses[t] = "Completed" /\ attempts[t] = 1 /\ sleeps[t] = 0

(***************************************************************************)
(* Properties of AuditLogger::log_event                                    *)
(***************************************************************************)

\* the persisted events form one chain: the first has no previous_hash,
\* every later one carries the event_hash of the one persisted before it,
\* and every event_hash is the hash of the stored event
ChainLinked(events) ==
    \A i \in 1..Len(events) :
        /\ events[i].previous_hash =
             (IF i = 1 THEN None ELSE events[i - 1].event_hash)
        /\ events[i].event_hash = Some(compute_hash(events[i]))

\* C6: log_event calls that run one after another persist a hash chain.
SequentialHashChain == ChainLinked(storage)

\* C6 witness: three events persisted and the third call has returned Ok
ThreeEventsChained ==
    /\ Len(storage) = 3
    /\ NoCallRunning
    /\ previous_hash = storage[3].event_hash

\* C7: concurrent log_event calls persist a single chain as well.
ConcurrentHashChain ==
    /\ ChainLinked(storage)
    /\ \A i, j \in 1..Len(storage) :
         i # j => storage[i].previous_hash # storage[j].previous_hash

(***************************************************************************)
(* Properties of WorkflowDAG::from_workflow and WorkflowExecutor::new      *)
(***************************************************************************)

RECURSIVE TransitiveDeps(_, _, _)
TransitiveDeps(deps, S, k) ==
    IF k = 0 THEN S
    ELSE TransitiveDeps(deps, S \cup UNION {deps[s] : s \in S \cap Steps}, k - 1)

\* the dependency graph has a cycle: some step depends, directly or through
\* other steps, on itself
Cyclic(deps) == \E s \in Steps : s \in TransitiveDeps(deps, deps[s], NSteps)

\* order holds every step exactly once, each after all of its dependencies
IsTopologicalOrder(deps, order) ==
    /\ Len(order) = NSteps
    /\ \A s \in Steps : Cardinality({i \in 1..Len(order) : order[i] = s}) = 1
    /\ \A s \in Steps : \A d \in deps[s] : IndexIn(order, d) < IndexIn(order, s)

\* path starts and ends with the same step and each of its steps is a
\* dependency of the next
IsCyclePath(deps, path) ==
    /\ Len(path) >= 2
    /\ path[1] = path[Len(path)]
    /\ \A i \in 1..Len(path) - 1 :
         path[i] \in Steps /\ path[i] \in deps[path[i + 1]]

\* C15: for a workflow whose depends_on entries are all declared and acyclic,
\* from_workflow succeeds and its execution order holds every step exactly
\* once, each step after all the steps it depends on; the executor that
\* WorkflowExecutor::new creates runs in that order.
ExecutionOrderTopological ==
    (AllDeclared(wf_depends_on) /\ ~Cyclic(wf_depends_on)) =>
        /\ dag_result # DagNone =>
            /\ dag_result.tag = "Ok"
            /\ IsTopologicalOrder(wf_depends_on, dag_result.order)
        /\ new_result # "none" =>
            /\ new_result = "Ok"
            /\ executor_dag = Some(dag_result.order)
        /\ cli_result # "none" => cli_result = "Ok"

\* C15 witness: an executor was created for a workflow in which the first
\* declared step depends on two others, so the order is not the declaration
\* order
ExecutorCreatedReordered ==
    /\ new_result = "Ok"
    /\ Cardinality(wf_depends_on[1]) = 2
    /\ executor_dag # None
    /\ executor_dag[1][NSteps] = 1

\* C16: for a workflow whose dependency graph has a cycle, a self-dependency
\* included, from_workflow fails with CycleDetected, the witness path starts
\* and ends with the same step and follows dependency edges, and neither
\* WorkflowExecutor::new nor validate_workflow succeeds: no executor exists.
CycleRejected ==
    (AllDeclared(wf_depends_on) /\ Cyclic(wf_depends_on)) =>
        /\ FromWorkflowResults(wf_depends_on) # {}
        /\ dag_result # DagNone =>
            /\ dag_result.tag = "CycleDetected"
            /\ IsCyclePath(wf_depends_on, dag_result.path)
        /\ new_result # "Ok"
        /\ executor_dag = None
        /\ cli_result # "Ok"

\* C16 witness: WorkflowExecutor::new failed on a workflow with a cycle of
\* two steps and a third step downstream of it; the witness path holds the
\* two steps of the cycle
TwoStepCycleReported ==
    /\ new_result = "Err"
    /\ dag_result.tag = "CycleDetected"
    /\ Len(dag_result.path) = 3
    /\ Cardinality(Unemitted(wf_depends_on)) = 3

(***************************************************************************)
(* Properties of ApiKeyManager                                             *)
(***************************************************************************)

\* the stored keys that carry the digest of a plaintext
StoredWithDigest(ks, key) ==
    {ks[h] : h \in {g \in DOMAIN ks : ks[g].key_hash = hash_key(key)}}

\* the ids of the keys created for a user and not revoked
LiveKeyIds(user_id) ==
    {k.id : k \in {i \in issued : i.user_id = user_id /\ i.id \notin revoked}}

\* C17: lookup_key(plaintext) returns ApiKeyNotFound when no stored key has
\* the plaintext's digest; ApiKeyExpired when the stored key's expires_at
\* lies in the past, and then the stored key is as it was; otherwise it sets
\* last_used_at and returns the stored key's info with last_used_at present.
LookupKeyContract ==
    last_call.op = "lookup_key" =>
        LET before == last_call.before
            stored == StoredWithDigest(keys, last_call.key)
        IN  /\ before = None =>
                /\ last_call.result = "ApiKeyNotFound"
                /\ stored = {}
            /\ (before # None /\ before[1].expires_at # None
                   /\ before[1].expires_at[1] < last_call.at) =>
                /\ last_call.result = "ApiKeyExpired"
                /\ stored = {before[1]}
            /\ (before # None
                   /\ (before[1].expires_at = None
                          \/ before[1].expires_at[1] >= last_call.at)) =>
                /\ last_call.result = "Ok"
                /\ last_call.info # None
                /\ last_call.info[1].last_used_at = Some(last_call.at)
                /\ last_call.info[1] =
                     [before[1] EXCEPT !.last_used_at = Some(last_call.at)]
                /\ stored = {last_call.info[1]}

\* C17 witness: lookup_key returned ApiKeyExpired for a key that an earlier
\* lookup_key had found and marked as used
ExpiredAfterUse ==
    /\ last_call.op = "lookup_key"
    /\ last_call.result = "ApiKeyExpired"
    /\ last_call.before[1].last_used_at # None

\* C18: a revoked key is not in the store, lookup_key of its plaintext gives
\* ApiKeyNotFound and list_keys does not list it; list_keys(user) returns
\* exactly the keys created for the user and not revoked; every key that
\* was not revoked stays in the store and lookup_key still finds it.
RevokedKeysGone ==
    /\ \A h \in DOMAIN keys : keys[h].id \notin revoked
    /\ \A k \in issued :
         IF k.id \in revoked
         THEN (last_call.op = "lookup_key" /\ last_call.key = k.key) =>
                  last_call.result = "ApiKeyNotFound"
         ELSE /\ \E i \in StoredWithDigest(keys, k.key) :
                    i.id = k.id /\ i.user_id = k.user_id
              /\ (last_call.op = "lookup_key" /\ last_call.key = k.key) =>
                    last_call.result # "ApiKeyNotFound"
    /\ last_call.op = "list_keys" =>
         /\ {i.id : i \in last_call.listed} = LiveKeyIds(last_call.user_id)
         /\ Cardinality(last_call.listed) = Cardinality(LiveKeyIds(last_call.user_id))
         /\ last_call.listed \subseteq {keys[h] : h \in DOMAIN keys}

\* C18 witness: two keys were created for one user, one of them was revoked,
\* and list_keys returned the other one
OneOfTwoKeysListed ==
    /\ last_call.op = "list_keys"
    /\ Cardinality(last_call.listed) = 1
    /\ Cardinality({k \in issued : k.user_id = last_call.user_id}) = 2
    /\ Cardinality(revoked \cap {k.id : k \in issued}) = 1

(***************************************************************************)
(* Properties of RbacEngine                                                *)
(***************************************************************************)

\* the listed roles that the policy table holds
ExistingRoles(roles) == Range(roles) \cap DOMAIN policies

\* C19: compute_permissions(roles) is the union of the permissions of the
\* listed roles that exist in the policy table (unknown names contribute
\* nothing, the empty list gives nothing), except that it is the full
\* permission universe when that union contains AdminAccess.
ComputePermissionsIsUnion ==
    rbac_call.op = "compute_permissions" =>
        LET union == UNION {policies[r] : r \in ExistingRoles(rbac_call.roles)}
        IN  /\ "AdminAccess" \in union => rbac_call.result = PermissionAll
            /\ "AdminAccess" \notin union => rbac_call.result = union
            /\ ExistingRoles(rbac_call.roles) = {} => rbac_call.result = {}

\* C19 witness: a custom role that holds AdminAccess alone, listed next to
\* a name the table does not hold, gave the full permission universe
CustomAdminGetsAll ==
    /\ rbac_call.op = "compute_permissions"
    /\ rbac_call.roles = <<"nonexistent", "custom_role">>
    /\ "custom_role" \in DOMAIN policies
    /\ policies["custom_role"] = {"AdminAccess"}
    /\ rbac_call.result = PermissionAll

\* C20: check_permission(roles, p) is true exactly when some listed role of
\* the table grants p or AdminAccess, and exactly when p is in
\* compute_permissions(roles).
CheckAgreesWithCompute ==
    rbac_call.op = "check_permission" =>
        /\ rbac_call.result <=>
              \E r \in ExistingRoles(rbac_call.roles) :
                  rbac_call.permission \in policies[r] \/ "AdminAccess" \in policies[r]
        /\ rbac_call.result <=>
              rbac_call.permission \in compute_permissions(policies, rbac_call.roles)

\* C20 witness: a permission that no listed role names was granted through
\* a custom role that holds AdminAccess alone
GrantedThroughAdminAccess ==
    /\ rbac_call.op = "check_permission"
    /\ rbac_call.result
    /\ rbac_call.permission = "WorkflowDelete"
    /\ \A r \in ExistingRoles(rbac_call.roles) : policies[r] = {"AdminAccess"}

(***************************************************************************)
(* Properties of JwtAuth                                                   *)
(***************************************************************************)

\* the token of the last call carries the field with this value
Carries(field, value) ==
    /\ field \in DOMAIN jwt_call.token.payload
    /\ jwt_call.token.payload[field] = value

\* the token of the last call carries the field with another value
CarriesOther(field, value) ==
    /\ field \in DOMAIN jwt_call.token.payload
    /\ jwt_call.token.payload[field] # value

\* the token of the last call is past its exp at the time of the call
PastExp ==
    /\ "exp" \in DOMAIN jwt_call.token.payload
    /\ jwt_call.token.payload.exp < jwt_call.at

\* C21: verify_token never returns Ok for a token signed with another
\* secret, with another issuer than the verifier's, or with exp earlier than
\* the current time; for an unexpired token the verifier issued itself it
\* returns claims with the token's subject, roles and issuer.
VerifyTokenContract ==
    jwt_call.op = "verify_token" =>
        /\ jwt_call.token.signed_with # jwt_auth.secret => jwt_call.result.tag = "Err"
        /\ CarriesOther("iss", jwt_auth.issuer) => jwt_call.result.tag = "Err"
        /\ PastExp => jwt_call.result.tag = "Err"
        /\ \A user_id \in Users, roles \in TokenRoles, iat \in Clock :
              /\ jwt_call.token = generate_token(jwt_auth, user_id, roles, iat)
              /\ ~PastExp
              => /\ jwt_call.result.tag = "Ok"
                 /\ jwt_call.result.value.sub = user_id
                 /\ jwt_call.result.value.roles = roles
                 /\ jwt_call.result.value.iss = jwt_auth.issuer

\* C21 witness: an access token of the verifier's own was refused one
\* minute past its exp, inside the leeway of the library's own check
OwnTokenRefusedJustAfterExp ==
    /\ jwt_call.op = "verify_token"
    /\ jwt_call.token.signed_with = jwt_auth.secret
    /\ Carries("iss", jwt_auth.issuer)
    /\ Carries("exp", jwt_call.at - 1)
    /\ "roles" \in DOMAIN jwt_call.token.payload
    /\ jwt_call.result = JwtErr("TokenExpired")

\* the token of the last call is a refresh token that the JwtAuth of the
\* call accepts at the time of the call
ValidRefreshToken ==
    /\ jwt_call.token.signed_with = jwt_auth.secret
    /\ Carries("token_type", "refresh")
    /\ Carries("iss", jwt_auth.issuer)
    /\ ~PastExp

\* C22: refresh_access_token(refresh_token, new_roles) is
\* verify_refresh_token followed by generate_token: for a valid refresh
\* token the returned access token verifies with the refresh token's subject
\* and new_roles; for an invalid or expired one an error is returned and no
\* token.
RefreshIsVerifyThenGenerate ==
    jwt_call.op = "refresh_access_token" =>
        LET verified == verify_refresh_token(jwt_auth, jwt_call.token, jwt_call.at)
        IN  /\ ValidRefreshToken <=> verified.tag = "Ok"
            /\ verified.tag = "Err" => jwt_call.result = verified
            /\ verified.tag = "Ok" =>
                  /\ jwt_call.result.tag = "Ok"
                  /\ jwt_call.result.value =
                         generate_token(jwt_auth, verified.value, jwt_call.roles, jwt_call.at)
                  /\ LET claims == verify_token(jwt_auth, jwt_call.result.value, jwt_call.at)
                     IN  /\ claims.tag = "Ok"
                         /\ claims.value.sub = jwt_call.token.payload.sub
                         /\ claims.value.roles = jwt_call.roles

\* C22 witness: a refresh token issued a minute earlier gave an access token
\* with the new roles
RefreshedWithNewRoles ==
    /\ jwt_call.op = "refresh_access_token"
    /\ ValidRefreshToken
    /\ jwt_call.token.payload.iat < jwt_call.at
    /\ jwt_call.roles = <<"developer">>
    /\ jwt_call.result.tag = "Ok"
    /\ jwt_call.result.value.payload.roles = <<"developer">>

\* the token of the last call came from generate_token of some JwtAuth
IsAccessToken == jwt_call.token \in AccessTokens

\* the token of the last call came from generate_refresh_token
IsRefreshToken == jwt_call.token \in RefreshTokens

\* C23: verify_refresh_token accepts only tokens whose token_type is
\* "refresh": an access token is never accepted by verify_refresh_token or
\* refresh_access_token, and a refresh token is never accepted by
\* verify_token.
TokenKindsNotInterchangeable ==
    /\ jwt_call.op = "verify_refresh_token" /\ jwt_call.result.tag = "Ok"
          => Carries("token_type", "refresh")
    /\ jwt_call.op \in {"verify_refresh_token", "refresh_access_token"} /\ IsAccessToken
          => jwt_call.result.tag = "Err"
    /\ jwt_call.op = "verify_token" /\ IsRefreshToken
          => jwt_call.result.tag = "Err"

\* C23 witness: the JwtAuth's own unexpired refresh token was refused as an
\* access token
OwnRefreshTokenRefusedAsAccess ==
    /\ jwt_call.op = "verify_token"
    /\ ValidRefreshToken
    /\ IsRefreshToken
    /\ jwt_call.result.tag = "Err"

(***************************************************************************)
(* Properties of AuditLogger: failing stores, the disabled logger          *)
(***************************************************************************)

\* the event_hash of the event persisted last, None before the first
LastPersistedHash ==
    IF storage = <<>> THEN None ELSE storage[Len(storage)].event_hash

\* caller c leaves the store step and the storage has not taken its event
StoreFailed(c) ==
    /\ call_pc[c] = "store"
    /\ call_pc'[c] # "store"
    /\ storage' = storage

\* C25: when storage.store fails inside log_event on an enabled logger,
\* log_event returns the error and previous_hash is left as it was, so the
\* next event logged chains from the last event that was persisted.
StoreFailureKeepsChain ==
    /\ [](NoCallRunning => previous_hash = LastPersistedHash /\ ChainLinked(storage))
    /\ [][\A c \in Callers :
            StoreFailed(c) => call_result'[c] = "err" /\ previous_hash' = previous_hash]_vars

\* C25 witness: the second of three calls failed in the store, and the third
\* event was persisted behind the first
ChainedPastFailedStore ==
    /\ NoCallRunning
    /\ Len(storage) = 2
    /\ storage[1].id = 1
    /\ storage[2].id = 3
    /\ storage[2].previous_hash = storage[1].event_hash
    /\ \E c \in Callers : call_result[c] = "err"

\* C26: on a disabled logger every log call returns Ok without calling the
\* storage backend and without changing previous_hash, whatever the calls.
DisabledLoggerIsNoOp ==
    ~enabled =>
        /\ storage = <<>>
        /\ previous_hash = None
        /\ \A c \in Callers :
              /\ call_pc[c] = "idle"
              /\ call_event[c] = NoEvent
              /\ call_result[c] \in {"none", "ok"}

\* C26 witness: MaxEvents calls on a disabled logger, every caller got Ok
DisabledLoggerCalled ==
    /\ ~enabled
    /\ events_created = MaxEvents
    /\ \A c \in Callers : call_result[c] = "ok"

\* C27: adding a role under a name that is not present and then removing
\* it leaves list_roles() and the policy of every role as they were before;
\* remove_role of a name that is not present returns RoleNotFound and
\* changes nothing.
AddThenRemoveRestores ==
    rbac_call.op = "remove_role" =>
        /\ /\ rbac_call.previous.op = "add_role"
           /\ rbac_call.previous.role = rbac_call.role
           /\ rbac_call.role \notin DOMAIN rbac_call.previous.before
           => /\ rbac_call.result = "Ok"
              /\ list_roles(policies) = list_roles(rbac_call.previous.before)
              /\ \A r \in list_roles(policies) :
                    policies[r] = rbac_call.previous.before[r]
        /\ rbac_call.role \notin DOMAIN rbac_call.before
           => /\ rbac_call.result = "RoleNotFound"
              /\ policies = rbac_call.before

\* C27 witness: custom_role was added to the predefined roles and removed
\* again
CustomRoleAddedAndRemoved ==
    /\ rbac_call.op = "remove_role"
    /\ rbac_call.role = "custom_role"
    /\ rbac_call.previous.op = "add_role"
    /\ rbac_call.previous.role = "custom_role"
    /\ rbac_call.previous.before = DefaultPolicies
    /\ rbac_call.result = "Ok"
    /\ list_roles(policies) = {"viewer", "executor", "developer", "admin"}

(***************************************************************************)
(* Properties of WorkflowExecutor::execute: independent chains             *)
(***************************************************************************)

\* the steps s depends on, directly or through other steps
Predecessors(s) == TransitiveDeps(depends_on, depends_on[s], NSteps)

\* s has not been dispatched and every one of its predecessors is terminal
ReadyUndispatched(s) ==
    /\ task_pc[s] = "unspawned"
    /\ step_statuses[s] = "Pending"
    /\ \A p \in Predecessors(s) : step_statuses[p] \in Terminal

\* the dispatch loop waits, in wait_for_dependencies, for a step that is
\* still running
LoopWaitsForRunning ==
    /\ InLoop
    /\ \E d \in depends_on[execution_order[idx]] :
          d \notin completed_steps /\ step_statuses[d] = "Running"

\* C29: with max_concurrency = 0 a step is dispatched as soon as all of its
\* own predecessors are terminal; its dispatch is never held back by a
\* running step that is not one of its predecessors.
IndependentChainsNotDelayed ==
    max_concurrency = 0 =>
        \A s \in Steps : ReadyUndispatched(s) => ~LoopWaitsForRunning


\* the last call was authenticate with this result and consulted nothing
RefusedUnconsulted(error) ==
    /\ auth_call.result = JwtErr(error)
    /\ auth_call.consulted = {}
    /\ auth_call.store_after = auth_call.store_before

\* C28: authenticate without a header returns MissingCredentials, with a
\* header that starts with neither "Bearer " nor "ApiKey " it returns
\* InvalidCredentials, and in both cases neither the JWT verifier nor the
\* API-key store is consulted or modified.
AuthenticateRefusesUnknownScheme ==
    auth_call.op = "authenticate" =>
        /\ auth_call.header = None => RefusedUnconsulted("MissingCredentials")
        /\ (auth_call.header # None
                /\ auth_call.header[1].prefix \notin {"Bearer ", "ApiKey "})
           => RefusedUnconsulted("InvalidCredentials")

\* C28 witness: a header "bearer <key>" whose key is a valid key of the
\* store has been refused
ValidKeyUnderUnknownScheme ==
    /\ auth_call.op = "authenticate"
    /\ auth_call.header # None
    /\ auth_call.header[1].prefix = "bearer "
    /\ LookupKeyOutcome(auth_call.store_before, auth_call.header[1].rest, now).result = "Ok"
    /\ auth_call.result = JwtErr("InvalidCredentials")

\* the scopes of the key a context was obtained with
ScopesOfContext(ctx) ==
    UNION {Range(k.scopes) : k \in {k \in issued : k.id = ctx.auth_type.of}}

\* C30: for a context obtained with an API key, authorize(ctx, p) is Ok only
\* if p is mapped from one of the key's scopes or the key has the admin
\* scope, and is Ok for every permission mapped from one of its scopes.
AuthorizeAgreesWithScopes ==
    (auth_call.op = "authorize" /\ auth_call.ctx.auth_type.kind = "ApiKey") =>
        LET scopes == ScopesOfContext(auth_call.ctx)
            mapped == {ScopePermission[sc] : sc \in scopes \cap DOMAIN ScopePermission}
        IN  /\ auth_call.result.tag = "Ok" =>
                (auth_call.permission \in mapped \/ "admin" \in scopes)
            /\ auth_call.permission \in mapped => auth_call.result.tag = "Ok"


\* the events of a sequence are in descending order of timestamp
TimestampDescending(events) ==
    \A i, j \in 1..Len(events) : i < j => events[i].timestamp >= events[j].timestamp

\* C24: on the file backend, after storing N events, a query with
\* AuditFilter::new() returns exactly those N events, each once, ordered by
\* timestamp descending.
QueryReturnsAllStored ==
    (file_call.op = "query" /\ file_call.filter = AuditFilterNew /\ cutoffs = {}) =>
        /\ Len(file_call.result) = Len(file_stored)
        /\ Range(file_call.result) = Range(file_stored)
        /\ TimestampDescending(file_call.result)


\* the first attempt of a step has begun
FirstAttemptBegun(s) == attempts[s] >= 1

\* C31: when a step's first attempt begins, the outputs of every predecessor
\* that ended Completed are already in the execution context: a Completed
\* step publishes its outputs before it enters the completed barrier set.
OutputsPublishedBeforeBarrier ==
    /\ \A s \in Steps :
        (s \in completed_steps /\ step_statuses[s] = "Completed")
            => set_output_calls[s] >= 1
    /\ \A s \in Steps : FirstAttemptBegun(s) =>
        \A dep \in depends_on[s] :
            /\ dep \in completed_steps
            /\ step_statuses[dep] = "Completed" => set_output_calls[dep] >= 1

\* C31 witness: the first attempt of a step runs whose two predecessors
\* ended one Completed, with its outputs published, and one Failed
FirstAttemptAfterCompletedPredecessor ==
    \E s \in Steps : \E dep, other \in depends_on[s] :
        /\ task_pc[s] = "attempt" /\ attempts[s] = 1
        /\ step_statuses[dep] = "Completed" /\ set_output_calls[dep] = 1
        /\ step_statuses[other] = "Failed"

\* C32: during one execute() set_output is called at most once per step id,
\* however many attempts the step makes, and only for steps that end
\* Completed, never for Failed or Skipped ones.
SetOutputOncePerCompletedStep ==
    \A s \in Steps :
        /\ set_output_calls[s] <= 1
        /\ set_output_calls[s] = 1 => step_statuses[s] = "Completed"
        /\ step_statuses[s] \in {"Failed", "Skipped"} => set_output_calls[s] = 0
        /\ (step_statuses[s] = "Completed" /\ s \in DOMAIN step_results)
               => set_output_calls[s] = 1

\* C32 witness: execute() has returned with a step Completed at its second
\* attempt and published once, a Failed step and a Skipped step
RetriedStepPublishedOnce ==
    \E s, t, u \in Steps :
        /\ pc_main = "returned_ok"
        /\ attempt_log[s] = <<"err", "ok">> /\ set_output_calls[s] = 1
        /\ step_statuses[t] = "Failed" /\ set_output_calls[t] = 0
        /\ step_statuses[u] = "Skipped" /\ set_output_calls[u] = 0

\* the attempts of a step that ran into the timeout
TimedOut(s) == {i \in 1..Len(attempt_log[s]) : attempt_log[s][i] = "timeout"}

\* C33: with timeout_seconds set every attempt is raced against the timeout
\* separately: an attempt that outlasts it is one failed attempt with a
\* Timeout error and is retried like any other failure, and a step whose
\* every attempt times out ends Failed after max_attempts attempts.
TimeoutIsOneFailedAttempt ==
    \A s \in Steps :
        /\ attempts[s] <= max_attempts
        /\ TimedOut(s) # {} => timeout_seconds[s] # None
        /\ \A i \in TimedOut(s) : i < max_attempts => attempts[s] > i
        /\ step_statuses[s] = "Failed" => Len(attempt_log[s]) = max_attempts
        /\ (TimedOut(s) = 1..max_attempts) =>
               /\ step_statuses[s] = "Failed"
               /\ step_results[s] = FailedResult(max_attempts)
               /\ attempt_log[s][step_results[s].error[1]] = "timeout"

\* C33 witness: with two attempts allowed, one step timed out twice and is
\* Failed, another timed out once and Completed at its second attempt
TimedOutTwiceThenFailed ==
    \E s, t \in Steps :
        /\ max_attempts = 2
        /\ attempt_log[s] = <<"timeout", "timeout">> /\ step_statuses[s] = "Failed"
        /\ attempt_log[t] = <<"timeout", "ok">> /\ step_statuses[t] = "Completed"


\* the events in the log file or in a renamed file
OnDisk == Range(file_lines) \cup UNION {Range(rotated[name]) : name \in DOMAIN rotated}

\* the events a delete_older_than call was free to remove
OlderThanSomeCutoff == {e \in Range(file_stored) : \E c \in cutoffs : e.timestamp < c}

\* C34: when store(e) runs concurrently with delete_older_than(cutoff) and
\* e.timestamp >= cutoff, store fails or e is in the file afterwards: an
\* event whose store returned Ok is never lost by the read-filter-rewrite.
StoredEventSurvivesDelete ==
    \A e \in Range(file_stored) \ OlderThanSomeCutoff : e \in Range(file_lines)

\* C35: rotation never destroys audit data: after any stores with rotations,
\* also several within one second, every event whose store returned Ok is
\* in the active log file or in some rotated file.
RotationKeepsEveryEvent ==
    \A e \in Range(file_stored) \ OlderThanSomeCutoff : e \in OnDisk

\* C36: delete_older_than(cutoff) removes exactly the stored events with
\* timestamp < cutoff, returns their number, and keeps every event with
\* timestamp >= cutoff unchanged and in order; with nothing older than
\* cutoff the file is untouched and 0 is returned.
DeleteRemovesExactlyOlder ==
    (file_call.op = "delete_older_than" /\ DeleteIdle) =>
        LET older == {e \in Range(file_stored) : e.timestamp < file_call.cutoff}
            before == file_call.before
        IN  /\ OnDisk \cap older = {}
            /\ file_lines = SelectSeq(before, LAMBDA e : e.timestamp >= file_call.cutoff)
            /\ file_call.result = Len(before) - Len(file_lines)
            /\ file_call.result = 0 =>
                   file_lines = before /\ file_modified = file_call.modified_before

\* C38: count(filter) is the number of stored events that satisfy the
\* predicates of the filter, whatever its limit and offset.
CountIgnoresLimitAndOffset ==
    file_call.op = "count" =>
        file_call.result =
            Len(SelectSeq(file_call.lines, LAMBDA e : PassesFilter(file_call.filter, e)))

(***************************************************************************)
(* Properties of AuditEvent::compute_hash                                  *)
(***************************************************************************)

\* the stored fields the format string of compute_hash names; of result it
\* names the tag only
HashedFields ==
    {"id", "timestamp", "event_type", "action", "resource_type", "resource_id",
     "previous_hash"}

\* the edited event differs from the persisted one in what compute_hash reads
HashedPartEdited ==
    \/ \E field \in HashedFields : edited[field] # persisted[field]
    \/ edited.result.tag # persisted.result.tag

\* the recomputed hash is not the stored event_hash
EditDetected == recomputed # persisted.event_hash[1]

SeparatorEditUndetected ==
    /\ edited.action # persisted.action
    /\ edited.resource_id # persisted.resource_id
    /\ ~EditDetected

(***************************************************************************)
(* Properties of AuditRetentionManager::start_background_cleanup           *)
(***************************************************************************)

\* C39: every tick the loop takes is followed by a cleanup() call, so that
\* at each await of the loop the calls made equal the ticks taken; the loop
\* is over only by an abort, whatever the cleanup() calls returned; and once
\* the task is dropped the number of delete_older_than calls stays as it was
BackgroundCleanupRunsUntilAbort ==
    /\ ret_pc \in {"waiting", "cleanup", "deleting", "cancelled"}
    /\ ret_pc \in {"waiting", "deleting", "cancelled"} => Len(ret_calls) = ret_ticks
    /\ ret_pc = "cancelled" => abort_requested /\ Len(ret_calls) = calls_at_cancel

\* a cleanup() returned Err, the next tick ran cleanup again, then the task
\* was aborted and the interval elapsed once more
CleanupAfterErrThenAborted ==
    /\ Len(ret_results) >= 1
    /\ ret_results[1] = "Err"
    /\ Len(ret_calls) >= 2
    /\ ret_pc = "cancelled"
    /\ tick_ready

(***************************************************************************)
(* Properties of lookup_key running concurrently with revoke_key           *)
(***************************************************************************)

\* the lookup_key call has returned
LookupReturned == lk_call.result # "none"

\* no key that a completed revoke_key named is in the store
RevokedKeysAbsent ==
    \A id \in revoked : \A h \in DOMAIN keys : keys[h].id # id

\* lookup_key returns the key's info only when no revoke_key of the key had
\* completed before it was called
NoInfoAfterRevoke ==
    /\ KeyIdOf(lk_call.key) \in lk_call.revoked_before
         => lk_call.result = "ApiKeyNotFound"
    /\ lk_call.result = "Ok" =>
         /\ lk_call.info # None
         /\ lk_call.info[1].key_hash = hash_key(lk_call.key)
         /\ lk_call.info[1].id = KeyIdOf(lk_call.key)
    /\ lk_call.result # "Ok" => lk_call.info = None

\* C40 as stated: a lookup_key that ran concurrently with a revoke_key of
\* its key returned the key's info or ApiKeyNotFound, never the info when
\* the revoke had completed before the call, and no revoked key is in the
\* store
LookupRaceInfoOrNotFound ==
    /\ (LookupReturned /\ lk_call.raced) =>
         /\ lk_call.result \in {"Ok", "ApiKeyNotFound"}
         /\ NoInfoAfterRevoke
    /\ RevokedKeysAbsent

\* C40, amended: a lookup_key that ran concurrently with a revoke_key of its
\* key returned the key's info, ApiKeyNotFound, or ApiKeyExpired, the last
\* only when the first store lookup found the key and its expires_at lay
\* before the time of the check; it never returned the info when the revoke
\* had completed before the call; and no revoked key is in the store,
\* whatever update_last_used did
LookupRaceOutcome ==
    /\ LookupReturned =>
         /\ lk_call.result \in {"Ok", "ApiKeyNotFound", "ApiKeyExpired"}
         /\ lk_call.result = "ApiKeyExpired" =>
              /\ lk_call.found # None
              /\ IsExpired(lk_call.found[1], lk_call.checked_at)
         /\ lk_call.result = "Ok" =>
              /\ lk_call.found # None
              /\ ~IsExpired(lk_call.found[1], lk_call.checked_at)
         /\ NoInfoAfterRevoke
    /\ RevokedKeysAbsent

\* the first store lookup found the key, a revoke_key of it ran during the
\* call, and the second lookup found nothing
LookupLostRaceToRevoke ==
    /\ LookupReturned
    /\ lk_call.raced
    /\ lk_call.found # None
    /\ lk_call.result = "ApiKeyNotFound"
    /\ KeyIdOf(lk_call.key) \in revoked

====
